---- MODULE Spec2Model ----
(***************************************************************************)
(* TaskLm: the web-scraper meta agent (src/src/web_scraper_meta_agent.py), *)
(* the Goose automation driver (src/src/goose.py) and the main agent       *)
(* (src/src/main_agent.py).                                                *)
(*                                                                         *)
(* Spec      the conversation controller: one action per Telegram handler  *)
(*           (messages, commands, button callbacks); a handler runs to its *)
(*           end before the next update is taken.                          *)
(* SpecUrls  the message and reset handlers alone, with the detected-URL   *)
(*           lists and message texts that matter for target_urls.          *)
(* SpecLimit the message and reset handlers with turns that bring up to   *)
(*           four new URLs.                                                *)
(* SpecTwo   messages, resets and callbacks of two users.                  *)
(* SpecTurns the messages of one user as the Application hands them to    *)
(*           handle_message: arrival, the handler's steps between its      *)
(*           awaits, the reply.                                            *)
(* SpecReply the message and reset handlers with the probing questions    *)
(*           that matter for the reply text.                               *)
(* SpecGoose one run_automation call: the goose process, the reader        *)
(*           thread and the working directory.                             *)
(* SpecExec  run_automation from its call of execute_file_background, for *)
(*           artifacts of every kind of suffix.                            *)
(* SpecGen   one generate_scraper callback in detail: the orchestrator's   *)
(*           polling loop and the worker thread running run_automation.    *)
(* SpecMain  the main agent (src/src/main_agent.py): its message handler   *)
(*           with the keyword fallback of its analyzer.                    *)
(* SpecSessions  generate_scraper callbacks of two users as the            *)
(*           Application hands them to handle_callback, each with the      *)
(*           worker it submits.                                            *)
(***************************************************************************)
EXTENDS Integers, Sequences, FiniteSets, TLC

VARIABLES
    user_projects,  \* WebScraperMetaAgent.user_projects: user id -> ScrapingProject
    turn,           \* what the handler that ran last did (observation only)
    \* GooseAutomator (one run_automation call)
    pc,             \* where run_automation stands
    process,        \* self.process: "none", or the child "alive" / "exited"
    stdin_open,     \* a write to process.stdin succeeds
    monitoring,     \* self.monitoring
    reader,         \* the monitor_output thread: "none", "running", "stopped"
    generated_file, \* self.generated_file: << >> or << file >>
    file_patterns,  \* the file_patterns argument
    execution,      \* what execute_file_background met (observation only)
    fs,             \* the working directory, by modification time
    writes,         \* files written into the working directory so far
    result,         \* what run_automation returns: << >> until then
    exit_path,      \* which return statement or except clause was taken
    steps,          \* the calls made so far, in order
    \* _handle_generate_scraper (one generate_scraper callback)
    orch_pc,        \* where the handler stands
    gen_user,       \* the user whose callback it is
    elapsed,        \* the elapsed counter of the polling loop
    blocked,        \* seconds spent leaving the executor after the loop
    timed_out,      \* the loop ended with the worker still running
    gen_result,     \* success, generated_file of the handler
    polls,          \* the future.done() reads of the loop so far (observation only)
    progress,       \* the elapsed values shown in progress updates so far
    \* Application (python-telegram-bot): the updates and their handlers
    update_queue,   \* the updates that arrived and were not taken yet
    handlers,       \* update -> how far its handler call has come
    sessions,       \* update -> the worker its generate_scraper handler submitted
    log,            \* what happened to the updates, in order (observation only)
    \* TaskMindMainAgent (src/src/main_agent.py)
    user_conversations, \* self.user_conversations: user id -> chat history
    main_turn       \* what its handle_message did last (observation only)

dispVars == <<update_queue, handlers, sessions, log>>

mainVars == <<user_conversations, main_turn>>

convVars == <<user_projects, turn, dispVars, mainVars>>

gooseVars ==
    <<pc, process, stdin_open, monitoring, reader, generated_file, file_patterns, execution,
      fs, writes, result, exit_path, steps>>

orchVars == <<orch_pc, gen_user, elapsed, blocked, timed_out, gen_result, polls, progress>>

vars == <<convVars, gooseVars, orchVars>>

(***************************************************************************)
(* Values                                                                  *)
(***************************************************************************)

\* Python's None, for string-valued slots.
None == "None"

\* A key that is not in a dict, for string-valued slots.
Absent == "<absent>"

\* An optional structured value: <<>> is None, <<v>> is v.
Some(v) == <<v>>

Min(a, b) == IF a <= b THEN a ELSE b

\* s[:n]
Take(s, n) == SubSeq(s, 1, Min(n, Len(s)))

\* x in s, for a list s
InSeq(x, s) == \E i \in 1..Len(s) : s[i] = x

Range(s) == {s[i] : i \in 1..Len(s)}

\* A string as far as the code looks into it: what stands before "://",
\* the part up to the next "/", and the rest.  A string without "//" has
\* scheme "".
Str(scheme, host, path) == [scheme |-> scheme, host |-> host, path |-> path]

U1 == Str("https", "example.com", "/products")
U2 == Str("http", "shop.org", "")
UBare == Str("", "example.com", "")
U3 == Str("https", "shop.org", "/sale")
U4 == Str("https", "news.net", "/today")
Hello == Str("", "hello", "")

\* "//" in url
HasSep(url) == url.scheme # ""

\* url.split("//")[1].split("/")[0]; IndexError when the string has no "//"
Domain(url) == url.host

\* The Stage values in forward order (spec 4.1).
StageOrder ==
    << "link_collection", "conversation_deepening", "requirements_clarification",
       "technical_details", "project_summary_and_schema",
       "awaiting_final_confirmation", "confirmed_ready_for_generation",
       "scraper_generated" >>

Stages == Range(StageOrder)

Rank(s) == CHOOSE i \in 1..Len(StageOrder) : StageOrder[i] = s

Users == {1, 2}

\* The users whose updates Spec delivers.
TurnUsers == {1}

\* user_id not in self.user_projects
NoProject == [user_id |-> 0]

(***************************************************************************)
(* ScrapingProject                                                         *)
(***************************************************************************)

AllUrls == {U1, U2, UBare, U3, U4}

\* data_requirements: page_analyses maps each URL to <<>> (no entry) or
\* <<analysis>>; the other keys are None until written.
EmptyRequirements ==
    [ page_analyses |-> [url \in AllUrls |-> <<>>],
      final_analysis |-> <<>>,
      goose_prompt |-> None,
      generated_file |-> << >> ]

ScrapingProject(user_id) ==
    [ user_id |-> user_id,
      target_urls |-> <<>>,
      data_requirements |-> EmptyRequirements,
      context_history |-> <<>>,
      status |-> "link_collection" ]

\* project.data_requirements.get("page_analyses") is truthy
HasPageAnalyses(project) ==
    \E url \in AllUrls : project.data_requirements.page_analyses[url] # <<>>

AnalyzedUrls(project) ==
    {url \in AllUrls : project.data_requirements.page_analyses[url] # <<>>}

\* if user_id not in self.user_projects: self.user_projects[user_id] = ScrapingProject(...)
ProjectOrNew(u) ==
    IF user_projects[u] = NoProject THEN ScrapingProject(u) ELSE user_projects[u]

(***************************************************************************)
(* Texts and dicts                                                         *)
(***************************************************************************)

\* A text is a sequence of tokens; a fixed phrase is one token.
Text(phrase) == << Str("", phrase, "") >>

\* A token of white space, and the blank line put before the question.
Space == Str("", " ", "")

BlankLine == Str("", "(blank line)", "")

\* str.strip(): the white space at both ends is dropped.
RECURSIVE Strip(_)
Strip(text) ==
    IF text = << >> THEN text
    ELSE IF Head(text) = Space THEN Strip(Tail(text))
    ELSE IF text[Len(text)] = Space THEN Strip(SubSeq(text, 1, Len(text) - 1))
    ELSE text

\* _get_default_value("response_message")
DefaultResponse == Text("I'd love to help you with web scraping! Tell me about your project")

\* The two canned responses of _create_fallback_analysis.
FallbackUrlResponse(detected_urls) ==
    Text("Great! I can see you want to work with") \o << detected_urls[1] >>
        \o (IF Len(detected_urls) > 1 THEN Text("and others") ELSE << >>)

FallbackPlainResponse == Text("I'd love to help you with web scraping! Are you building something")

FallbackQuestion == Text("What's the ultimate goal of collecting this data?")

\* A dict as far as the controller reads it: the set of its keys, the keys
\* whose value is None, and the values of the keys that are read.  The slot
\* of a key that is not in the dict holds Absent (a string), << >> (a list)
\* or {} (the field names of data_schema.primary_data).
Dict(keys, stage, response_message, probing_questions, detected_urls, understanding_level, primary_data) ==
    [ keys |-> keys, nulls |-> {},
      stage |-> IF "stage" \in keys THEN stage ELSE Absent,
      response_message |-> IF "response_message" \in keys THEN response_message ELSE << >>,
      probing_questions |-> IF "probing_questions" \in keys THEN probing_questions ELSE << >>,
      detected_urls |-> IF "detected_urls" \in keys THEN detected_urls ELSE << >>,
      understanding_level |->
          IF "understanding_level" \in keys THEN understanding_level ELSE Absent,
      primary_data |-> IF "data_schema" \in keys THEN primary_data ELSE {} ]

\* analysis.get("stage")
GetStage(analysis) == IF "stage" \in analysis.keys THEN analysis.stage ELSE None

\* An outcome of one chat.completions.create call followed by json.loads:
\* a JSON object, or an exception (transport error, non-JSON content).
LLMJson(obj) == [ok |-> TRUE, json |-> obj]

LLMError == [ok |-> FALSE, json |-> Dict({}, Absent, << >>, << >>, << >>, Absent, {})]

\* A page analysis as stored in page_analyses: the analyzer's dict, which
\* holds page_type and extractable_data.primary_fields, or, when the
\* analyzer's own LLM call failed, only an "error" key.
PageAnalysis(page_type, primary_fields) ==
    [has_fields |-> TRUE, page_type |-> page_type, primary_fields |-> primary_fields]

PageAnalysisError == [has_fields |-> FALSE, page_type |-> Absent, primary_fields |-> << >>]

\* An outcome of web_analyzer.analyze_page_structure(url).
PageOk(analysis) == [kind |-> "ok", analysis |-> analysis]

PageFail == [kind |-> "fail", analysis |-> PageAnalysisError]

PageRaise == [kind |-> "raise", analysis |-> PageAnalysisError]

Entry(role, content) == [role |-> role, content |-> content]

(***************************************************************************)
(* analyze_scraping_requirements                                           *)
(***************************************************************************)

\* re.findall(url_pattern, user_message): a token matches when it starts
\* with http:// or https:// and at least one more character follows.
MatchesUrlPattern(token) ==
    /\ token.scheme \in {"http", "https"}
    /\ token.host # "" \/ token.path # ""

FindAllUrls(user_message) == SelectSeq(user_message, MatchesUrlPattern)

\* A fallback that keeps only the first URL and never leaves "surface".
CreateFallbackAnalysisFirstUrl(user_message) ==
    Dict({"stage", "response_message", "probing_questions", "detected_urls",
          "understanding_level", "next_focus", "insights_gathered"},
         "conversation_deepening", FallbackPlainResponse, << FallbackQuestion >>,
         Take(FindAllUrls(user_message), 1), "surface", {})

\* _create_fallback_analysis
CreateFallbackAnalysis(user_message) ==
    LET detected_urls == FindAllUrls(user_message)
        keys == {"stage", "response_message", "probing_questions", "detected_urls",
                 "understanding_level", "next_focus", "insights_gathered"}
    IN  IF detected_urls # << >>
        THEN Dict(keys, "conversation_deepening", FallbackUrlResponse(detected_urls),
                  << FallbackQuestion >>, detected_urls, "getting_deeper", {})
        ELSE Dict(keys, "conversation_deepening", FallbackPlainResponse,
                  << FallbackQuestion >>, detected_urls, "surface", {})

\* Lines 167-179: the defaults for the keys the LLM's object lacks.
\* _get_default_value has no entry for next_action and confidence: they
\* are set to None.
WithDefaults(analysis) ==
    [ analysis EXCEPT
        !.keys = @ \cup {"stage", "response_message", "next_action", "confidence",
                         "probing_questions", "detected_urls", "insights_gathered"},
        !.nulls = @ \cup ({"next_action", "confidence"} \ analysis.keys),
        !.stage = IF "stage" \in analysis.keys THEN @ ELSE "conversation_deepening",
        !.response_message =
            IF "response_message" \in analysis.keys THEN @ ELSE DefaultResponse ]

\* The forcing rule of line 83 (context_history already holds this turn's
\* user entry).
ExchangeCount(project) == Len(project.context_history) \div 2

ForcingRule(project) ==
    /\ ExchangeCount(project) >= 3
    /\ project.target_urls # << >>
    /\ HasPageAnalyses(project)

\* all_fields of _create_fallback_summary: the primary fields of every
\* cached page analysis that has extractable_data.
AllPrimaryFields(project) ==
    UNION { Range(project.data_requirements.page_analyses[url][1].primary_fields) :
            url \in AnalyzedUrls(project) }

\* list(set(all_fields))[:10]: some 10 of the distinct fields (the order of
\* a set is not fixed), all of them when there are at most 10.
UniqueFieldChoices(fields) ==
    {S \in SUBSET fields : Cardinality(S) = Min(10, Cardinality(fields))}

\* A call's result: the dict returned, or an exception leaving the call.
Returned(analysis) == [raised |-> FALSE, analysis |-> analysis]

Raised == [raised |-> TRUE, analysis |-> LLMError.json]

\* _create_fallback_summary: line 1456 indexes url.split("//")[1] for every
\* target URL.
CreateFallbackSummary(project) ==
    IF \E i \in 1..Len(project.target_urls) : ~HasSep(project.target_urls[i])
    THEN {Raised}
    ELSE { Returned(Dict({"stage", "response_message", "project_summary", "data_schema",
                          "technical_requirements", "next_steps", "final_question"},
                         "project_summary_and_schema", Text("PROJECT SUMMARY & SCHEMA"),
                         << >>, << >>, Absent, fields)) :
           fields \in UniqueFieldChoices(AllPrimaryFields(project)) }

\* _generate_final_project_summary: the LLM's object as it is, or the
\* fallback summary when the call fails.
GenerateFinalProjectSummary(project, llm) ==
    IF llm.ok THEN {Returned(llm.json)} ELSE CreateFallbackSummary(project)

\* An analyzer whose fallback looks at the project as well as the message.
AnalyzeFallbackReadsProject(user_message, project, llm) ==
    IF ForcingRule(project)
    THEN GenerateFinalProjectSummary(project, llm)
    ELSE IF \E url \in AnalyzedUrls(project) : ~HasSep(url)
    THEN {Raised}
    ELSE IF llm.ok
    THEN {Returned(WithDefaults(llm.json))}
    ELSE {Returned([CreateFallbackAnalysis(user_message) EXCEPT
                       !.understanding_level =
                           IF project.target_urls # << >> THEN "getting_deeper" ELSE @])}

\* analyze_scraping_requirements(user_message, project): the set of its
\* possible results for one outcome of the LLM call it makes.  Line 125
\* indexes url.split("//")[1] for every key of page_analyses, outside the
\* try block.
AnalyzeScrapingRequirements(user_message, project, llm) ==
    IF ForcingRule(project)
    THEN GenerateFinalProjectSummary(project, llm)
    ELSE IF \E url \in AnalyzedUrls(project) : ~HasSep(url)
    THEN {Raised}
    ELSE IF llm.ok
    THEN {Returned(WithDefaults(llm.json))}
    ELSE {Returned(CreateFallbackAnalysis(user_message))}

(***************************************************************************)
(* Bounds and the inputs of the environment                                *)
(***************************************************************************)

\* context_history is not extended beyond this length.
MaxHistory == 8

\* target_urls is not extended beyond this length.
MaxUrls == 4

\* The analyses the page analyzer returns.
Ecommerce == PageAnalysis("e-commerce", << "price", "title" >>)

PageResults == {PageOk(Ecommerce), PageFail, PageRaise}

\* The messages users send.
MsgPlain == << Hello >>

MsgUrl == << Hello, U1 >>

MsgTwice == << U1, Hello, U1 >>

R1 == Text("r1")

Q1 == Text("q1")

\* The keys of the object the analyzer's prompt asks for.
NormalKeys ==
    {"stage", "response_message", "probing_questions", "detected_urls",
     "understanding_level"}

\* An object as the analyzer's prompt asks for it.
LLMReply(stage, probing_questions, detected_urls) ==
    Dict(NormalKeys, stage, R1, probing_questions, detected_urls, "good_understanding", {})

\* An object as the summary prompt asks for it.
LLMSummary ==
    Dict({"stage", "response_message", "project_summary", "data_schema"},
         "project_summary_and_schema", R1, << >>, << >>, Absent, {"price"})

\* Spec: one message text; the LLM fails, or returns one of the stages its
\* prompt offers (ready_to_proceed among them), or a summary.
Messages == {MsgUrl}

LLMOutcomes ==
    { LLMError,
      LLMJson(LLMReply("conversation_deepening", << Q1 >>, << U1 >>)),
      LLMJson(LLMReply("technical_details", << Q1 >>, << >>)),
      LLMJson(LLMReply("ready_to_proceed", << >>, << >>)),
      LLMJson(LLMSummary) }

\* SpecUrls: the message names no URL, or one URL twice; the LLM
\* fails, or returns lists of detected URLs: one naming a
\* URL twice, one of two URLs, one holding a string without "//"; or an
\* object that holds only a stage.
UrlMessages == {MsgPlain, MsgTwice}

UrlLLMOutcomes ==
    { LLMError,
      LLMJson(LLMReply("conversation_deepening", << Q1 >>, << U1, U1 >>)),
      LLMJson(LLMReply("conversation_deepening", << Q1 >>, << U2, U1 >>)),
      LLMJson(LLMReply("conversation_deepening", << Q1 >>, << UBare >>)),
      LLMJson(Dict({"stage"}, "requirements_clarification", << >>, << >>, << >>, Absent, {})) }

\* SpecLimit: the LLM fails, or returns one, two or four detected URLs.
LimitLLMOutcomes ==
    { LLMError,
      LLMJson(LLMReply("conversation_deepening", << Q1 >>, << U1 >>)),
      LLMJson(LLMReply("conversation_deepening", << Q1 >>, << U3, U4 >>)),
      LLMJson(LLMReply("requirements_clarification", << >>, << U1, U2, U3, U4 >>)) }

\* SpecTwo: the LLM names the URL of the message.
TwoLLMOutcomes ==
    { LLMJson(LLMReply("conversation_deepening", << Q1 >>, << U1 >>)) }

\* SpecTurns: the LLM names the URL of the message, or returns a summary.
TurnsLLMOutcomes ==
    { LLMJson(LLMReply("conversation_deepening", << Q1 >>, << U1 >>)),
      LLMJson(LLMSummary) }

\* SpecReply: the LLM fails; or it returns no question, two questions of
\* which the first has white space around it, or an empty question; or it
\* returns a summary.
Q2 == << Space >> \o Text("q2") \o << Space >>

ReplyLLMOutcomes ==
    { LLMError,
      LLMJson(LLMReply("conversation_deepening", << >>, << >>)),
      LLMJson(LLMReply("requirements_clarification", << Q2, Q1 >>, << >>)),
      LLMJson(LLMReply("technical_details", << << >> >>, << >>)),
      LLMJson(LLMSummary) }

\* The prompts generate_goose_prompt returns; None when it fails.
GoosePrompts == {None, "prompt_a", "prompt_b"}

(***************************************************************************)
(* handle_message                                                          *)
(***************************************************************************)

\* Line 408: the detected URLs that are not in target_urls.
NewUrls(detected_urls, target_urls) ==
    SelectSeq(detected_urls, LAMBDA url : ~InSeq(url, target_urls))

\* The loop given up at the first URL whose analysis fails.
RECURSIVE StoreAnalysesStopsAtFailure(_, _, _)
StoreAnalysesStopsAtFailure(page_analyses, urls_to_analyze, results) ==
    IF urls_to_analyze = << >> \/ Head(results).kind # "ok"
    THEN page_analyses
    ELSE StoreAnalysesStopsAtFailure(
            [page_analyses EXCEPT ![Head(urls_to_analyze)] = Some(Head(results).analysis)],
            Tail(urls_to_analyze), Tail(results))

\* The loop of _analyze_and_present_urls over urls_to_analyze: a result
\* with success and a non-empty analysis is stored under its URL; a failure
\* or an exception stores nothing and the loop goes on.
RECURSIVE StoreAnalyses(_, _, _)
StoreAnalyses(page_analyses, urls_to_analyze, results) ==
    IF urls_to_analyze = << >>
    THEN page_analyses
    ELSE StoreAnalyses(
            IF Head(results).kind = "ok"
            THEN [page_analyses EXCEPT ![Head(urls_to_analyze)] = Some(Head(results).analysis)]
            ELSE page_analyses,
            Tail(urls_to_analyze), Tail(results))

\* urls[:3] of _analyze_and_present_urls
AnalyzeLimit == 3

\* Every URL handed in is analyzed.
UrlsToAnalyzeAll(urls) == urls

UrlsToAnalyze(urls) == Take(urls, AnalyzeLimit)

\* The analyzer's calls of one turn, in order: the URL given and how the
\* call ended ("ok", "fail": success false, "raise": an exception).
Analyzed(urls, results) ==
    [i \in 1..Len(urls) |-> [url |-> urls[i], kind |-> results[i].kind]]

\* A summary handler that stores the stage of the analysis as the status.
HandleFinalSummaryStoresStage(project, analysis) ==
    [ project EXCEPT
        !.status = analysis.stage,
        !.data_requirements.final_analysis = Some(analysis) ]

\* A summary handler that appends its response_message to the history.
HandleFinalSummaryWithEntry(project, analysis) ==
    [ project EXCEPT
        !.status = "awaiting_final_confirmation",
        !.data_requirements.final_analysis = Some(analysis),
        !.context_history = Append(@, Entry("assistant", analysis.response_message)) ]

\* A summary handler that stores the payload with the analyzer's defaults
\* filled in.
HandleFinalSummaryWithDefaults(project, analysis) ==
    [ project EXCEPT
        !.status = "awaiting_final_confirmation",
        !.data_requirements.final_analysis = Some(WithDefaults(analysis)) ]

\* Lines 497-501: _handle_final_summary, after its replies were sent.
HandleFinalSummary(project, analysis) ==
    [ project EXCEPT
        !.status = "awaiting_final_confirmation",
        !.data_requirements.final_analysis = Some(analysis) ]

\* Lines 417-418.
UpdateStatus(project, analysis) ==
    IF GetStage(analysis) \notin {None, ""}
    THEN [project EXCEPT !.status = analysis.stage]
    ELSE project

\* Lines 406-414: the URLs of the turn are added and the new ones analyzed.
ProcessDetectedUrls(project, analysis, results) ==
    LET new_urls == NewUrls(analysis.detected_urls, project.target_urls)
    IN  [ project EXCEPT
            !.target_urls = @ \o new_urls,
            !.data_requirements.page_analyses =
                StoreAnalyses(@, UrlsToAnalyze(new_urls), results) ]

\* Line 430: response_message += "\n\n" + follow_up.strip()
WithFollowUp(response_message, follow_up) ==
    response_message \o << BlankLine >> \o Strip(follow_up)

\* A reply that asks the first question however long the conversation is.
ReplyTextAlwaysAsks(analysis, context_history) ==
    IF analysis.probing_questions # << >> /\ analysis.probing_questions[1] # << >>
    THEN WithFollowUp(analysis.response_message, analysis.probing_questions[1])
    ELSE analysis.response_message

\* Lines 424-430: the reply text.  The question is added when the list is
\* not empty, the history is shorter than 6 and the first question is not
\* the empty string.
ReplyText(analysis, context_history) ==
    IF /\ analysis.probing_questions # << >>
       /\ Len(context_history) < 6
       /\ analysis.probing_questions[1] # << >>
    THEN WithFollowUp(analysis.response_message, analysis.probing_questions[1])
    ELSE analysis.response_message

NoReply == << >>

\* The keys of a dict whose value is not None.
Fields(analysis) == analysis.keys \ analysis.nulls

\* What the handler that ran last did.  For handle_message: llm_ok tells
\* whether the LLM call returned a JSON object, analysis is the dict the
\* analyzer returned (the empty dict for the other handlers).
Turn(op, u, outcome, forced, analyzed, reply) ==
    [ op |-> op, user |-> u, outcome |-> outcome, forced |-> forced,
      analyzed |-> analyzed, reply |-> reply, llm_ok |-> TRUE,
      analysis |-> LLMError.json ]

MessageTurn(u, outcome, forced, analyzed, reply, analysis, llm) ==
    [ Turn("message", u, outcome, forced, analyzed, reply) EXCEPT
        !.llm_ok = llm.ok, !.analysis = analysis ]

\* The part of handle_message after line 404, for an analysis whose stage
\* is not project_summary_and_schema.  analysis["response_message"] raises
\* KeyError when the key is missing; what was written before stays.
NormalTurn(u, project, analysis, forced, llm) ==
    LET new_urls == NewUrls(analysis.detected_urls, project.target_urls)
    IN  /\ Len(project.target_urls) + Len(new_urls) <= MaxUrls
        /\ \E results \in [1..Len(UrlsToAnalyze(new_urls)) -> PageResults] :
             LET p2 == UpdateStatus(ProcessDetectedUrls(project, analysis, results), analysis)
                 p3 == [p2 EXCEPT !.context_history =
                            Append(@, Entry("assistant", analysis.response_message))]
             IN  IF "response_message" \in analysis.keys
                 THEN /\ user_projects' = [user_projects EXCEPT ![u] = p3]
                      /\ turn' = MessageTurn(u, "normal", forced,
                                             Analyzed(UrlsToAnalyze(new_urls), results),
                                             ReplyText(analysis, p3.context_history), analysis, llm)
                 ELSE /\ user_projects' = [user_projects EXCEPT ![u] = p2]
                      /\ turn' = MessageTurn(u, "key_error", forced,
                                             Analyzed(UrlsToAnalyze(new_urls), results),
                                             NoReply, analysis, llm)

\* handle_message(update): user u sends user_message; llm is the outcome of
\* the one LLM call the analyzer makes.  _handle_final_summary sends its
\* replies (lines 438-495) before it writes the project: when a reply_text
\* raises (sent is FALSE) the handler ends with the project as line 396
\* left it.
HandleMessage(u, user_message, llm) ==
    LET p1 == [ProjectOrNew(u) EXCEPT
                  !.context_history = Append(@, Entry("user", user_message))]
        forced == ForcingRule(p1)
    IN  /\ Len(p1.context_history) < MaxHistory
        /\ \E res \in AnalyzeScrapingRequirements(user_message, p1, llm) :
             IF res.raised
             THEN /\ user_projects' = [user_projects EXCEPT ![u] = p1]
                  /\ turn' = MessageTurn(u, "analyzer_raised", forced, << >>, NoReply,
                                         res.analysis, llm)
             ELSE IF GetStage(res.analysis) = "project_summary_and_schema"
             THEN \E sent \in BOOLEAN :
                    IF sent
                    THEN /\ user_projects' =
                              [user_projects EXCEPT ![u] = HandleFinalSummary(p1, res.analysis)]
                         /\ turn' = MessageTurn(u, "summary", forced, << >>,
                                                res.analysis.response_message,
                                                res.analysis, llm)
                    ELSE /\ user_projects' = [user_projects EXCEPT ![u] = p1]
                         /\ turn' = MessageTurn(u, "summary_aborted", forced, << >>,
                                                NoReply, res.analysis, llm)
             ELSE NormalTurn(u, p1, res.analysis, forced, llm)

(***************************************************************************)
(* Commands and button callbacks                                           *)
(***************************************************************************)

\* start_command and reset_command: the project is replaced.
StartCommand(u) ==
    /\ user_projects' = [user_projects EXCEPT ![u] = ScrapingProject(u)]
    /\ turn' = Turn("start", u, "reset", FALSE, << >>, NoReply)

\* A /reset that clears the projects of all users.
ResetCommandEveryone(u) ==
    /\ user_projects' = [v \in Users |-> ScrapingProject(v)]
    /\ turn' = Turn("reset", u, "reset", FALSE, << >>, NoReply)

ResetCommand(u) ==
    /\ user_projects' = [user_projects EXCEPT ![u] = ScrapingProject(u)]
    /\ turn' = Turn("reset", u, "reset", FALSE, << >>, NoReply)

\* A reset that starts the conversation over but keeps the URLs collected.
ResetProjectInlineKeepsUrls(u) ==
    /\ user_projects' =
          [user_projects EXCEPT ![u] =
              [ScrapingProject(u) EXCEPT !.target_urls = ProjectOrNew(u).target_urls]]
    /\ turn' = Turn("reset_project", u, "reset", FALSE, << >>, NoReply)

\* handle_callback with reset_project: _reset_project_inline.
ResetProjectInline(u) ==
    /\ user_projects' = [user_projects EXCEPT ![u] = ScrapingProject(u)]
    /\ turn' = Turn("reset_project", u, "reset", FALSE, << >>, NoReply)

\* handle_callback with a button that only shows something (show_status,
\* modify_project, ask_questions, show_full_schema, view_goose_prompt, ...):
\* lines 623-625 create the project when the user has none.
ViewCallback(u) ==
    /\ user_projects' = [user_projects EXCEPT ![u] = ProjectOrNew(u)]
    /\ turn' = Turn("view", u, "shown", FALSE, << >>, NoReply)

\* _generate_and_store_goose_prompt: the prompt is stored when
\* generate_goose_prompt returned one.
StoreGoosePrompt(project, goose_prompt) ==
    IF goose_prompt # None
    THEN [project EXCEPT !.data_requirements.goose_prompt = goose_prompt]
    ELSE project

\* handle_callback with confirm_project: _handle_project_confirmation.
ConfirmProject(u, goose_prompt) ==
    /\ user_projects' =
          [user_projects EXCEPT ![u] =
              StoreGoosePrompt([ProjectOrNew(u) EXCEPT
                                   !.status = "confirmed_ready_for_generation"],
                               goose_prompt)]
    /\ turn' = Turn("confirm_project", u, "confirmed", FALSE, << >>, NoReply)

(***************************************************************************)
(* GooseAutomator: the working directory                                   *)
(***************************************************************************)

\* A file of the working directory: its name up to the suffix, and suffix.
File(stem, suffix) == [stem |-> stem, suffix |-> suffix]

GooseScript == File("goose", ".py")

Scraper == File("scraper", ".py")

Readme == File("README", ".md")

Files == {GooseScript, Scraper, Readme}

\* The default patterns of find_generated_file, and those the bot passes
\* (line 1103); a pattern "*.x" is kept as the suffix it matches.
DefaultPatterns == {".py", ".js", ".html", ".css", ".txt", ".md"}

BotPatterns == {".py", ".txt", ".md", ".json"}

\* The directory as find_generated_file reads it: the files from the least
\* to the most recently modified; the last `fresh` of them were modified
\* less than 120 seconds ago.
Directory(order, fresh) == [order |-> order, fresh |-> fresh]

IsFresh(dir, i) == i > Len(dir.order) - dir.fresh

\* Lines 124-128: the files a pattern matches, except goose.py.
IsCandidate(file, patterns) ==
    /\ file.suffix \in patterns
    /\ ~(file.stem = "goose" /\ file.suffix = ".py")

CandidateIndexes(dir, patterns) ==
    {i \in 1..Len(dir.order) : IsCandidate(dir.order[i], patterns)}

Max(S) == CHOOSE x \in S : \A y \in S : y <= x

\* A search that does not look at the age of the file.
FindGeneratedFileAnyAge(dir, patterns) ==
    LET found == CandidateIndexes(dir, patterns)
    IN  IF found # {} THEN Some(dir.order[Max(found)]) ELSE << >>

\* find_generated_file: the most recently modified candidate, when it is
\* fresh; << >> when find_generated_file returns False.
FindGeneratedFile(dir, patterns) ==
    LET found == CandidateIndexes(dir, patterns)
    IN  IF found # {} /\ IsFresh(dir, Max(found))
        THEN Some(dir.order[Max(found)])
        ELSE << >>

\* A file is written: it becomes the most recently modified one.
Touch(dir, file) ==
    LET others == SelectSeq(dir.order, LAMBDA f : f # file)
        wasFresh == \E i \in 1..Len(dir.order) : dir.order[i] = file /\ IsFresh(dir, i)
    IN  Directory(Append(others, file), IF wasFresh THEN dir.fresh ELSE dir.fresh + 1)

\* Time passes: the least recently modified fresh file is fresh no longer.
Age(dir) == Directory(dir.order, dir.fresh - 1)

(***************************************************************************)
(* GooseAutomator: run_automation                                          *)
(***************************************************************************)

\* Files written into the working directory during one run.
MaxWrites == 2

\* A value run_automation hands to its caller: the tuple it returns, or an
\* exception that leaves it.
RunResult(success, file) == [raised |-> FALSE, success |-> success, file |-> file]

Propagated == [raised |-> TRUE, success |-> FALSE, file |-> << >>]

\* Lines 293-298: both except clauses return False, None.
OnExceptionPropagates == Propagated

OnException == RunResult(FALSE, << >>)

\* Lines 299-300: a return statement inside the try block, and the end of
\* an except clause, pass through the finally clause, which calls cleanup.
FinallySkipped == "returned"

Finally == "cleanup"

\* return res (or the except clause that ends with it) inside the try block
Return(res, path) ==
    /\ result' = Some(res)
    /\ exit_path' = path
    /\ pc' = Finally

\* process.stdin.write(...) and flush() succeed
CanWrite == process = "alive" /\ stdin_open

\* run_automation(prompt, file_patterns) is called.
CallRunAutomation(patterns) ==
    /\ pc = "idle"
    /\ pc' = "start"
    /\ file_patterns' = patterns
    /\ UNCHANGED <<process, stdin_open, monitoring, reader, generated_file, fs, writes,
                   result, exit_path, steps, execution>>

\* start_goose_session: Popen raises; or the monitor thread cannot be
\* started; or the session is up.
StartGooseSession ==
    /\ pc = "start"
    /\ steps' = Append(steps, "start")
    /\ \/ /\ UNCHANGED <<process, stdin_open, monitoring, reader>>
          /\ Return(RunResult(FALSE, << >>), "start_failed")
       \/ /\ process' = "alive" /\ stdin_open' = TRUE /\ monitoring' = TRUE
          /\ UNCHANGED reader
          /\ Return(RunResult(FALSE, << >>), "start_failed")
       \/ /\ process' = "alive" /\ stdin_open' = TRUE /\ monitoring' = TRUE
          /\ reader' = "running"
          /\ pc' = "send"
          /\ UNCHANGED <<result, exit_path>>
    /\ UNCHANGED <<generated_file, file_patterns, execution, fs, writes>>

\* send_prompt: the write succeeds, or raises and send_prompt returns False.
SendPrompt ==
    /\ pc = "send"
    /\ steps' = Append(steps, "send")
    /\ IF CanWrite
       THEN pc' = "find" /\ UNCHANGED <<result, exit_path>>
       ELSE Return(RunResult(FALSE, << >>), "send_failed")
    /\ UNCHANGED <<process, stdin_open, monitoring, reader, generated_file,
                   file_patterns, execution, fs, writes>>

\* A run_automation that goes on to execute whatever the search returned.
FindFileThenExecute ==
    /\ pc \in {"find", "find_again"}
    /\ steps' = Append(steps, "find")
    /\ generated_file' = FindGeneratedFile(fs, file_patterns)
    /\ pc' = "execute"
    /\ UNCHANGED <<result, exit_path>>
    /\ UNCHANGED <<process, stdin_open, monitoring, reader, file_patterns, execution, fs, writes>>

\* Lines 271 and 281: find_generated_file, first and second search.
FindFile ==
    /\ pc \in {"find", "find_again"}
    /\ steps' = Append(steps, "find")
    /\ LET found == FindGeneratedFile(fs, file_patterns)
       IN  IF found # << >>
           THEN /\ generated_file' = found
                /\ pc' = "execute"
                /\ UNCHANGED <<result, exit_path>>
           ELSE /\ UNCHANGED generated_file
                /\ IF pc = "find"
                   THEN pc' = "newline" /\ UNCHANGED <<result, exit_path>>
                   ELSE Return(RunResult(FALSE, << >>), "not_found")
    /\ UNCHANGED <<process, stdin_open, monitoring, reader, file_patterns, execution, fs, writes>>

\* Lines 276-277: the newline written before the second search; a failing
\* write raises into the except clause.
SendNewline ==
    /\ pc = "newline"
    /\ steps' = Append(steps, "newline")
    /\ IF CanWrite
       THEN pc' = "find_again" /\ UNCHANGED <<result, exit_path>>
       ELSE Return(OnException, "newline_failed")
    /\ UNCHANGED <<process, stdin_open, monitoring, reader, generated_file,
                   file_patterns, execution, fs, writes>>

\* str.lower() of a suffix.
Lower(suffix) ==
    CASE suffix = ".PY" -> ".py"
      [] suffix = ".JS" -> ".js"
      [] suffix = ".HTML" -> ".html"
      [] suffix = ".HTM" -> ".htm"
      [] OTHER -> suffix

\* What becomes of the interpreter process: Popen raises ("not_started"),
\* the process ends within communicate(timeout=5) ("exited"), or
\* TimeoutExpired is raised and the process is left as it is ("running").
Runs == {"not_started", "exited", "running"}

\* Before execute_file_background is called.
NoExecution == [called |-> FALSE, exists |-> FALSE, process |-> "none"]

\* What a call met: whether the file existed, and the process it started,
\* if it got as far as Popen.
Execution(file, exists, run) ==
    [ called |-> TRUE,
      exists |-> exists,
      process |-> IF file # << >> /\ exists /\ Lower(file[1].suffix) \in {".py", ".js"}
                  THEN run ELSE "none" ]

\* An execute_file_background that counts a process still running after
\* the timeout as a failure.
ExecuteFileBackgroundTimeoutFails(file, exists, run) ==
    CASE file = << >> \/ ~exists -> FALSE
      [] Lower(file[1].suffix) \in {".py", ".js"} -> run = "exited"
      [] Lower(file[1].suffix) \in {".html", ".htm"} -> TRUE
      [] OTHER -> FALSE

\* execute_file_background for self.generated_file: its return value.
ExecuteFileBackground(file, exists, run) ==
    CASE file = << >> \/ ~exists -> FALSE
      [] Lower(file[1].suffix) \in {".py", ".js"} -> run # "not_started"
      [] Lower(file[1].suffix) \in {".html", ".htm"} -> TRUE
      [] OTHER -> FALSE

\* Lines 285-291.
ExecuteFile ==
    /\ pc = "execute"
    /\ steps' = Append(steps, "execute")
    /\ \E exists \in BOOLEAN, run \in Runs :
         /\ execution' = Execution(generated_file, exists, run)
         /\ IF ExecuteFileBackground(generated_file, exists, run)
            THEN Return(RunResult(TRUE, generated_file), "success")
            ELSE Return(RunResult(FALSE, generated_file), "exec_failed")
    /\ UNCHANGED <<process, stdin_open, monitoring, reader, generated_file,
                   file_patterns, fs, writes>>

\* KeyboardInterrupt, or another exception, raised inside the try block.
InTry == pc \in {"start", "send", "find", "newline", "find_again", "execute"}

Interrupt ==
    /\ InTry
    /\ Return(OnException, "interrupted")
    /\ UNCHANGED <<process, stdin_open, monitoring, reader, generated_file,
                   file_patterns, execution, fs, writes, steps>>

(***************************************************************************)
(* GooseAutomator: cleanup, the reader thread, the goose process           *)
(***************************************************************************)

\* Lines 248-249: an exception raised inside cleanup's try block is printed
\* and cleanup returns.
CleanupExcept == "returned"

\* Lines 226-231: monitoring is cleared; without a process there is nothing
\* more to do.
Cleanup ==
    /\ pc = "cleanup"
    /\ monitoring' = FALSE
    /\ steps' = Append(steps, "cleanup")
    /\ pc' = IF process = "none" THEN "returned" ELSE "cleanup_exit"
    /\ UNCHANGED <<process, stdin_open, reader, generated_file, file_patterns, execution, fs,
                   writes, result, exit_path>>

\* Lines 234-237: the exit command, written when the process is alive.
CleanupExit ==
    /\ pc = "cleanup_exit"
    /\ IF process = "alive"
       THEN /\ steps' = Append(steps, "write_exit")
            /\ pc' = IF stdin_open THEN "cleanup_terminate" ELSE CleanupExcept
       ELSE /\ pc' = "cleanup_terminate"
            /\ UNCHANGED steps
    /\ UNCHANGED <<process, stdin_open, monitoring, reader, generated_file,
                   file_patterns, execution, fs, writes, result, exit_path>>

\* A cleanup that calls terminate() without looking at poll().
CleanupTerminateUnchecked ==
    /\ pc = "cleanup_terminate"
    /\ steps' = Append(steps, "terminate")
    /\ pc' = "cleanup_kill"
    /\ UNCHANGED <<process, stdin_open, monitoring, reader, generated_file,
                   file_patterns, execution, fs, writes, result, exit_path>>

\* Lines 240-242: terminate() signals a process that is still alive.
CleanupTerminate ==
    /\ pc = "cleanup_terminate"
    /\ steps' = IF process = "alive" THEN Append(steps, "terminate") ELSE steps
    /\ pc' = "cleanup_kill"
    /\ UNCHANGED <<process, stdin_open, monitoring, reader, generated_file,
                   file_patterns, execution, fs, writes, result, exit_path>>

\* Lines 244-245: kill() ends a process that is still alive.
CleanupKill ==
    /\ pc = "cleanup_kill"
    /\ IF process = "alive"
       THEN /\ steps' = Append(steps, "kill")
            /\ process' = "exited"
            /\ stdin_open' = FALSE
       ELSE UNCHANGED <<steps, process, stdin_open>>
    /\ pc' = "returned"
    /\ UNCHANGED <<monitoring, reader, generated_file, file_patterns, execution, fs, writes,
                   result, exit_path>>

\* monitor_output: the loop ends once it sees monitoring cleared.
ReaderStops ==
    /\ reader = "running"
    /\ ~monitoring
    /\ reader' = "stopped"
    /\ UNCHANGED <<pc, process, stdin_open, monitoring, generated_file, file_patterns, execution,
                   fs, writes, result, exit_path, steps>>

\* The goose process ends: by itself, on the exit command, or on SIGTERM.
GooseExits ==
    /\ process = "alive"
    /\ process' = "exited"
    /\ stdin_open' = FALSE
    /\ UNCHANGED <<pc, monitoring, reader, generated_file, file_patterns, execution, fs, writes,
                   result, exit_path, steps>>

\* The goose process closes its standard input and keeps running.
GooseClosesStdin ==
    /\ process = "alive"
    /\ stdin_open
    /\ stdin_open' = FALSE
    /\ UNCHANGED <<pc, process, monitoring, reader, generated_file, file_patterns, execution, fs,
                   writes, result, exit_path, steps>>

\* The goose process writes a file into the working directory.
GooseWritesFile(file) ==
    /\ process = "alive"
    /\ writes < MaxWrites
    /\ writes' = writes + 1
    /\ fs' = Touch(fs, file)
    /\ UNCHANGED <<pc, process, stdin_open, monitoring, reader, generated_file,
                   file_patterns, execution, result, exit_path, steps>>

\* Time passes while run_automation sleeps.
FileAges ==
    /\ pc \notin {"idle", "returned"}
    /\ fs.fresh > 0
    /\ fs' = Age(fs)
    /\ UNCHANGED <<pc, process, stdin_open, monitoring, reader, generated_file,
                   file_patterns, execution, writes, result, exit_path, steps>>

GooseStep ==
    \/ StartGooseSession
    \/ SendPrompt
    \/ FindFile
    \/ SendNewline
    \/ ExecuteFile
    \/ Cleanup
    \/ CleanupExit
    \/ CleanupTerminate
    \/ CleanupKill
    \/ ReaderStops

GooseEnvironment ==
    \/ GooseExits
    \/ GooseClosesStdin
    \/ \E file \in Files \ {GooseScript} : GooseWritesFile(file)
    \/ FileAges

(***************************************************************************)
(* Application: updates are taken from the queue and handed to             *)
(* handle_message, whose awaits give the event loop back                   *)
(***************************************************************************)

\* The updates that arrive are numbered in arrival order, up to this many.
MaxUpdates == 3

Updates == 1..MaxUpdates

\* An entry of log: what happened, and to which update.
Ev(i, ev) == [id |-> i, ev |-> ev]

\* The events that end a handle_message call: its reply was sent, the
\* summary was presented, or an exception left it.
EndEvents == {"reply", "summary", "raised"}

\* A handle_message call that has not begun.
IdleHandler ==
    [ pc |-> "none", user |-> 0, analysis |-> LLMError.json, forced |-> FALSE,
      llm |-> LLMError, new_urls |-> << >>, analyzed |-> << >>, reply |-> NoReply ]

\* The update is no generate_scraper callback, or its handler has not
\* submitted a worker: state is the worker's ("none", "running",
\* "returned"), result what run_goose_automation returned, outcome the
\* handler's success, generated_file once assigned (lines 1124, 1128).
NoSession == [state |-> "none", result |-> << >>, outcome |-> << >>, timed_out |-> FALSE]

Arrived == Cardinality({k \in DOMAIN log : log[k].ev = "arrived"})

\* app.run_polling(): the next update of the user arrives.
UpdateArrives ==
    /\ Arrived < MaxUpdates
    /\ update_queue' = Append(update_queue, Arrived + 1)
    /\ log' = Append(log, Ev(Arrived + 1, "arrived"))
    /\ UNCHANGED <<user_projects, turn, handlers, sessions>>

\* An Application that takes the next update while a handler is running.
FetcherAlwaysReady == TRUE

\* The Application is built without concurrent_updates and the handlers
\* are added with the default block: the next update is taken only when the
\* handler of the one before has returned.
FetcherIdle == \A i \in Updates : handlers[i].pc \in {"none", "ended"}

\* The head of the queue is taken and handle_message runs up to its first
\* await: the user entry is appended, the analyzer called and, on a turn
\* that is no summary, the new URLs appended (lines 384-410).
BeginHandleMessage(u, user_message, llm) ==
    /\ update_queue # << >>
    /\ FetcherIdle
    /\ UNCHANGED sessions
    /\ LET i == Head(update_queue)
           p1 == [ProjectOrNew(u) EXCEPT
                     !.context_history = Append(@, Entry("user", user_message))]
           forced == ForcingRule(p1)
           begun == log \o << Ev(i, "user_entry"), Ev(i, "analyzer") >>
       IN  /\ Len(p1.context_history) < MaxHistory
           /\ update_queue' = Tail(update_queue)
           /\ \E res \in AnalyzeScrapingRequirements(user_message, p1, llm) :
                IF res.raised
                THEN /\ user_projects' = [user_projects EXCEPT ![u] = p1]
                     /\ handlers' = [handlers EXCEPT ![i] = [IdleHandler EXCEPT !.pc = "ended"]]
                     /\ log' = Append(begun, Ev(i, "raised"))
                     /\ turn' = MessageTurn(u, "analyzer_raised", forced, << >>, NoReply,
                                            res.analysis, llm)
                ELSE LET summary == GetStage(res.analysis) = "project_summary_and_schema"
                         new_urls == IF summary THEN << >>
                                     ELSE NewUrls(res.analysis.detected_urls, p1.target_urls)
                     IN  /\ Len(p1.target_urls) + Len(new_urls) <= MaxUrls
                         /\ user_projects' =
                               [user_projects EXCEPT
                                   ![u] = [p1 EXCEPT !.target_urls = @ \o new_urls]]
                         /\ handlers' =
                               [handlers EXCEPT
                                   ![i] = [IdleHandler EXCEPT
                                             !.pc = "analyzed", !.user = u,
                                             !.analysis = res.analysis, !.forced = forced,
                                             !.llm = llm, !.new_urls = new_urls]]
                         /\ log' = begun
                         /\ UNCHANGED turn

\* The call goes on after its await: on a summary turn
\* _handle_final_summary sends its replies and writes the project (lines
\* 438-501); on another turn the pages are analyzed, the status is set, the
\* assistant entry appended and the reply text put together (lines 414-430).
ContinueHandleMessage(i) ==
    LET h == handlers[i]
        project == user_projects[h.user]
    IN  /\ h.pc = "analyzed"
        /\ UNCHANGED <<update_queue, sessions>>
        /\ IF GetStage(h.analysis) = "project_summary_and_schema"
           THEN \E sent \in BOOLEAN :
                  /\ user_projects' =
                        [user_projects EXCEPT
                            ![h.user] = IF sent THEN HandleFinalSummary(project, h.analysis)
                                        ELSE project]
                  /\ handlers' = [handlers EXCEPT ![i].pc = "ended"]
                  /\ log' = Append(log, Ev(i, IF sent THEN "summary" ELSE "raised"))
                  /\ turn' = MessageTurn(h.user,
                                         IF sent THEN "summary" ELSE "summary_aborted",
                                         h.forced, << >>,
                                         IF sent THEN h.analysis.response_message ELSE NoReply,
                                         h.analysis, h.llm)
           ELSE \E results \in [1..Len(UrlsToAnalyze(h.new_urls)) -> PageResults] :
                  LET p2 == UpdateStatus(
                                [project EXCEPT
                                    !.data_requirements.page_analyses =
                                        StoreAnalyses(@, UrlsToAnalyze(h.new_urls), results)],
                                h.analysis)
                      p3 == [p2 EXCEPT !.context_history =
                                Append(@, Entry("assistant", h.analysis.response_message))]
                      analyzed == Analyzed(UrlsToAnalyze(h.new_urls), results)
                  IN  IF "response_message" \in h.analysis.keys
                      THEN /\ user_projects' = [user_projects EXCEPT ![h.user] = p3]
                           /\ handlers' =
                                 [handlers EXCEPT
                                     ![i].pc = "appended",
                                     ![i].analyzed = analyzed,
                                     ![i].reply = ReplyText(h.analysis, p3.context_history)]
                           /\ log' = Append(log, Ev(i, "assistant_entry"))
                           /\ UNCHANGED turn
                      ELSE /\ user_projects' = [user_projects EXCEPT ![h.user] = p2]
                           /\ handlers' = [handlers EXCEPT ![i].pc = "ended"]
                           /\ log' = Append(log, Ev(i, "raised"))
                           /\ turn' = MessageTurn(h.user, "key_error", h.forced, analyzed,
                                                  NoReply, h.analysis, h.llm)

\* Line 432: the reply is sent (sent), or reply_text raises; either way the
\* call is over.
EndHandleMessage(i, sent) ==
    LET h == handlers[i]
    IN  /\ h.pc = "appended"
        /\ handlers' = [handlers EXCEPT ![i].pc = "ended"]
        /\ log' = Append(log, Ev(i, IF sent THEN "reply" ELSE "raised"))
        /\ turn' = MessageTurn(h.user, "normal", h.forced, h.analyzed,
                               IF sent THEN h.reply ELSE NoReply, h.analysis, h.llm)
        /\ UNCHANGED <<user_projects, update_queue, sessions>>

InitDisp ==
    /\ update_queue = << >>
    /\ handlers = [i \in Updates |-> IdleHandler]
    /\ sessions = [i \in Updates |-> NoSession]
    /\ log = << >>

(***************************************************************************)
(* TaskMindMainAgent (src/src/main_agent.py): the keyword fallback of      *)
(* analyze_user_problem and handle_message                                 *)
(***************************************************************************)

\* The keyword lists of lines 183-200, in the order of the if/elif chain.
ScrapeWords == {"scrape", "crawl", "web", "extract", "data"}

AudioWords == {"audio", "transcribe", "speech", "voice", "sound", "whisper"}

MediaWords == {"video", "media", "ffmpeg", "convert", "edit", "processing"}

StorageWords == {"file", "storage", "backup", "cloud", "sync", "drive", "google"}

DocumentWords == {"pdf", "document", "doc", "text", "extract"}

\* The words users type; a message is a sequence of them.
MainWords ==
    {"hello", "Scrape", "AUDIO", "video", "cloud", "pdf", "cobweb", "credit",
     "extract", "document"}

\* str.lower() of a word.
LowerWord(word) ==
    CASE word = "Scrape" -> "scrape"
      [] word = "AUDIO" -> "audio"
      [] OTHER -> word

\* The keywords of lines 183-198 that occur in a lower-case word as a
\* substring (word in message_lower is a substring test).
KeywordsIn(word) ==
    CASE word = "scrape" -> {"scrape"}
      [] word = "audio" -> {"audio"}
      [] word = "video" -> {"video"}
      [] word = "cloud" -> {"cloud"}
      [] word = "pdf" -> {"pdf"}
      [] word = "cobweb" -> {"web"}
      [] word = "credit" -> {"edit"}
      [] word = "extract" -> {"extract"}
      [] word = "document" -> {"document", "doc"}
      [] OTHER -> {}

\* any(word in message_lower for word in words)
AnyWordIn(user_message, words) ==
    \E i \in DOMAIN user_message : KeywordsIn(LowerWord(user_message[i])) \cap words # {}

\* The dict of lines 207-213.
MainAnalysis(recommended, response) ==
    [ needs_more_info |-> Len(recommended) > 2,
      clarifying_questions |->
          IF Len(recommended) > 2
          THEN << "What specific features do you need?",
                  "What's your main goal with this project?" >>
          ELSE << >>,
      response_message |-> response,
      recommended_agents |-> recommended,
      confidence |-> "medium" ]

\* A fallback that looks for the document keywords first.
MainCreateFallbackAnalysisDocumentFirst(user_message) ==
    IF AnyWordIn(user_message, DocumentWords)
    THEN MainAnalysis(<< "pdf_processor" >>, "document processing")
    ELSE IF AnyWordIn(user_message, ScrapeWords)
    THEN MainAnalysis(<< "web_scraper" >>, "web scraping")
    ELSE IF AnyWordIn(user_message, AudioWords)
    THEN MainAnalysis(<< "whisper" >>, "audio processing")
    ELSE IF AnyWordIn(user_message, MediaWords)
    THEN MainAnalysis(<< "ffmpeg" >>, "media content")
    ELSE IF AnyWordIn(user_message, StorageWords)
    THEN MainAnalysis(<< "gdrive" >>, "file management")
    ELSE MainAnalysis(<< "web_scraper", "gdrive", "whisper" >>, "tell me more")

\* TaskMindMainAgent._create_fallback_analysis (lines 177-213); the
\* response texts are kept by their subject.
MainCreateFallbackAnalysis(user_message) ==
    IF AnyWordIn(user_message, ScrapeWords)
    THEN MainAnalysis(<< "web_scraper" >>, "web scraping")
    ELSE IF AnyWordIn(user_message, AudioWords)
    THEN MainAnalysis(<< "whisper" >>, "audio processing")
    ELSE IF AnyWordIn(user_message, MediaWords)
    THEN MainAnalysis(<< "ffmpeg" >>, "media content")
    ELSE IF AnyWordIn(user_message, StorageWords)
    THEN MainAnalysis(<< "gdrive" >>, "file management")
    ELSE IF AnyWordIn(user_message, DocumentWords)
    THEN MainAnalysis(<< "pdf_processor" >>, "document processing")
    ELSE MainAnalysis(<< "web_scraper", "gdrive", "whisper" >>, "tell me more")

\* An analysis as the LLM returns it when it asks for more information.
MainLLMReply ==
    [ needs_more_info |-> TRUE,
      clarifying_questions |-> << "What is the source?" >>,
      response_message |-> "llm reply",
      recommended_agents |-> << >>,
      confidence |-> "low" ]

\* analyze_user_problem (lines 85-164): the LLM's object, or the fallback
\* when the call or the parsing fails.
AnalyzeUserProblem(user_message, llm_ok) ==
    IF llm_ok THEN MainLLMReply ELSE MainCreateFallbackAnalysis(user_message)

\* The chat history of a user is followed up to this length.
MaxConversation == 4

\* The messages sent to the main agent: one or two words.
MainMessages ==
    {<< w >> : w \in MainWords} \cup {<< w1, w2 >> : w1 \in MainWords, w2 \in MainWords}

\* What handle_message did: the message, the analysis it got and whether
\* the recommendations were shown (lines 340-341).
MainTurn(u, user_message, llm_ok, analysis) ==
    [ op |-> "message", user |-> u, message |-> user_message, llm_ok |-> llm_ok,
      analysis |-> analysis,
      shown |-> ~analysis.needs_more_info /\ analysis.recommended_agents # << >> ]

NoMainTurn ==
    [ op |-> "none", user |-> 0, message |-> << >>, llm_ok |-> TRUE,
      analysis |-> MainLLMReply, shown |-> FALSE ]

\* TaskMindMainAgent.handle_message (lines 318-341).
MainHandleMessage(u, user_message, llm_ok) ==
    LET analysis == AnalyzeUserProblem(user_message, llm_ok)
    IN  /\ Len(user_conversations[u]) + 2 <= MaxConversation
        /\ user_conversations' =
              [user_conversations EXCEPT
                  ![u] = @ \o << Entry("user", user_message),
                                 Entry("assistant", analysis.response_message) >>]
        /\ main_turn' = MainTurn(u, user_message, llm_ok, analysis)

InitMain ==
    /\ user_conversations = [u \in Users |-> << >>]
    /\ main_turn = NoMainTurn

(***************************************************************************)
(* Initial states                                                          *)
(***************************************************************************)

InitConv ==
    /\ user_projects = [u \in Users |-> NoProject]
    /\ turn = Turn("none", 0, "none", FALSE, << >>, NoReply)

\* The working directory before a run: goose.py alone; with a scraper of
\* an earlier run; with a README written a moment ago; with a scraper and
\* then goose.py both written a moment ago.
InitDirs ==
    { Directory(<< GooseScript >>, 0),
      Directory(<< Scraper, GooseScript >>, 0),
      Directory(<< GooseScript, Readme >>, 1),
      Directory(<< Scraper, GooseScript >>, 2) }

InitGoose ==
    /\ pc = "idle"
    /\ process = "none"
    /\ stdin_open = FALSE
    /\ monitoring = FALSE
    /\ reader = "none"
    /\ generated_file = << >>
    /\ file_patterns = {}
    /\ execution = NoExecution
    /\ fs \in InitDirs
    /\ writes = 0
    /\ result = << >>
    /\ exit_path = "none"
    /\ steps = << >>

InitOrch ==
    /\ orch_pc = "idle"
    /\ gen_user = 0
    /\ elapsed = 0
    /\ blocked = 0
    /\ timed_out = FALSE
    /\ gen_result = << >>
    /\ polls = << >>
    /\ progress = << >>

(***************************************************************************)
(* SpecGoose: run_automation called directly (goose.py as a script)        *)
(***************************************************************************)

InitGooseRun == InitConv /\ InitDisp /\ InitMain /\ InitGoose /\ InitOrch

NextGoose ==
    \/ CallRunAutomation(DefaultPatterns) /\ UNCHANGED <<convVars, orchVars>>
    \/ GooseStep /\ UNCHANGED <<convVars, orchVars>>
    \/ Interrupt /\ UNCHANGED <<convVars, orchVars>>
    \/ GooseEnvironment /\ UNCHANGED <<convVars, orchVars>>

SpecGoose == InitGooseRun /\ [][NextGoose]_vars

(***************************************************************************)
(* SpecExec: execute_file_background for the artifacts a search may find   *)
(***************************************************************************)

\* The artifacts: Python and JavaScript sources, pages, a text, and a
\* Python source whose suffix is written in capitals.
ExecFiles ==
    { Scraper, File("scraper", ".js"), File("index", ".html"), File("index", ".htm"),
      Readme, File("SCRAPER", ".PY") }

\* run_automation at line 285: the session is up, the prompt was sent and
\* the search has just found the artifact.
InitExec ==
    /\ InitConv
    /\ InitDisp
    /\ InitMain
    /\ InitOrch
    /\ pc = "execute"
    /\ process = "alive"
    /\ stdin_open = TRUE
    /\ monitoring = TRUE
    /\ reader = "running"
    /\ generated_file \in {Some(file) : file \in ExecFiles}
    /\ file_patterns = {generated_file[1].suffix}
    /\ execution = NoExecution
    /\ fs = Directory(<< GooseScript, generated_file[1] >>, 1)
    /\ writes = 0
    /\ result = << >>
    /\ exit_path = "none"
    /\ steps = << "start", "send", "find" >>

NextExec ==
    \/ ExecuteFile /\ UNCHANGED <<convVars, orchVars>>
    \/ Cleanup /\ UNCHANGED <<convVars, orchVars>>
    \/ CleanupExit /\ UNCHANGED <<convVars, orchVars>>
    \/ CleanupTerminate /\ UNCHANGED <<convVars, orchVars>>
    \/ CleanupKill /\ UNCHANGED <<convVars, orchVars>>
    \/ ReaderStops /\ UNCHANGED <<convVars, orchVars>>
    \/ GooseExits /\ UNCHANGED <<convVars, orchVars>>
    \/ GooseClosesStdin /\ UNCHANGED <<convVars, orchVars>>

SpecExec == InitExec /\ [][NextExec]_vars

(***************************************************************************)
(* _handle_generate_scraper                                                *)
(***************************************************************************)

\* Lines 1107, 1114 and 1118.
timeout_seconds == 120

PollInterval == 5

ProgressInterval == 15

\* Poll intervals the handler is followed for while it waits, on leaving
\* the executor's with block, for a worker that has not finished.
MaxWaitTicks == 2

\* The outcomes of the checks before the worker is started: goose.py could
\* not be imported, the goose executable is not usable, or all is well.
Availability == {"no_module", "unavailable", "ok"}

\* future.done()
FutureDone == pc = "returned"

\* Lines 1123-1128: the worker's result when it is done, else False, None.
FutureOutcome(done, res) == IF done THEN res ELSE RunResult(FALSE, << >>)

\* str(generated_file)
PathStr(file) == << file.stem, file.suffix >>

\* A failed attempt that discards the stored prompt.
RecordGenerationDiscardsPrompt(project, success, file) ==
    IF success /\ file # << >>
    THEN [ project EXCEPT
             !.status = "scraper_generated",
             !.data_requirements.generated_file = << file[1].stem, file[1].suffix >> ]
    ELSE [ project EXCEPT !.data_requirements.goose_prompt = None ]

\* A handler that records every file the worker returns, whether or not
\* running it succeeded.
RecordGenerationOfAnyFile(project, success, file) ==
    IF file # << >>
    THEN [ project EXCEPT
             !.status = "scraper_generated",
             !.data_requirements.generated_file = PathStr(file[1]) ]
    ELSE project

\* Lines 1134 and 1170-1172: the generation is recorded when success is
\* true and a file was returned.
RecordGeneration(project, success, file) ==
    IF success /\ file # << >>
    THEN [ project EXCEPT
             !.status = "scraper_generated",
             !.data_requirements.generated_file = PathStr(file[1]) ]
    ELSE project

\* A handler that goes on to the worker whatever the checks of the goose
\* module and executable say.
GenerateScraperBeginUnchecked(u, avail) ==
    /\ orch_pc = "idle"
    /\ gen_user' = u
    /\ user_projects' = [user_projects EXCEPT ![u] = ProjectOrNew(u)]
    /\ orch_pc' = IF ProjectOrNew(u).data_requirements.goose_prompt = None
                  THEN "returned"
                  ELSE "submit"
    /\ turn' = Turn("generate_scraper", u,
                    IF ProjectOrNew(u).data_requirements.goose_prompt = None
                    THEN "no_prompt"
                    ELSE IF avail # "ok" THEN avail ELSE "started",
                    FALSE, << >>, NoReply)
    /\ UNCHANGED <<elapsed, blocked, timed_out, gen_result, polls, progress>>
    /\ UNCHANGED <<gooseVars, dispVars, mainVars>>

\* Lines 1025-1079: the callback arrives; without a stored prompt, without
\* the goose module or without a usable goose nothing is started.
GenerateScraperBegin(u, avail) ==
    /\ orch_pc = "idle"
    /\ gen_user' = u
    /\ user_projects' = [user_projects EXCEPT ![u] = ProjectOrNew(u)]
    /\ orch_pc' = IF ProjectOrNew(u).data_requirements.goose_prompt = None \/ avail # "ok"
                  THEN "returned"
                  ELSE "submit"
    /\ turn' = Turn("generate_scraper", u,
                    IF ProjectOrNew(u).data_requirements.goose_prompt = None
                    THEN "no_prompt"
                    ELSE IF avail # "ok" THEN avail ELSE "started",
                    FALSE, << >>, NoReply)
    /\ UNCHANGED <<elapsed, blocked, timed_out, gen_result, polls, progress>>
    /\ UNCHANGED <<gooseVars, dispVars, mainVars>>

\* Line 1111: a read of future.done() inside the loop, and what it saw.
Poll(at, done) == [at |-> at, done |-> done]

\* A loop that updates the progress message after every sleep.
ShowsProgressAlways(seconds) == TRUE

\* Line 1118: the progress message is updated when elapsed is a multiple
\* of 15.
ShowsProgress(seconds) == seconds % ProgressInterval = 0

\* Lines 1096-1108: the worker is submitted to the executor.
SubmitWorker ==
    /\ orch_pc = "submit"
    /\ CallRunAutomation(BotPatterns)
    /\ orch_pc' = "poll"
    /\ elapsed' = 0
    /\ polls' = << >>
    /\ progress' = << >>
    /\ UNCHANGED <<gen_user, blocked, timed_out, gen_result>>
    /\ UNCHANGED convVars

\* Lines 1110-1120: one round of the loop with the worker not done.
PollSleep ==
    /\ orch_pc = "poll"
    /\ elapsed < timeout_seconds
    /\ ~FutureDone
    /\ polls' = Append(polls, Poll(elapsed, FALSE))
    /\ elapsed' = elapsed + PollInterval
    /\ progress' = IF ShowsProgress(elapsed + PollInterval)
                   THEN Append(progress, elapsed + PollInterval)
                   ELSE progress
    /\ UNCHANGED <<orch_pc, gen_user, blocked, timed_out, gen_result>>
    /\ UNCHANGED <<convVars, gooseVars>>

\* The loop ends: the ceiling is reached, or the worker is seen done.
PollEnd ==
    /\ orch_pc = "poll"
    /\ elapsed >= timeout_seconds \/ FutureDone
    /\ orch_pc' = "get_result"
    /\ polls' = IF elapsed < timeout_seconds THEN Append(polls, Poll(elapsed, TRUE)) ELSE polls
    /\ UNCHANGED <<gen_user, elapsed, blocked, timed_out, gen_result, progress>>
    /\ UNCHANGED <<convVars, gooseVars>>

\* Lines 1122-1128.
GetResult ==
    /\ orch_pc = "get_result"
    /\ timed_out' = ~FutureDone
    /\ gen_result' = Some(FutureOutcome(FutureDone, IF FutureDone THEN result[1] ELSE Propagated))
    /\ orch_pc' = "executor_exit"
    /\ UNCHANGED <<gen_user, elapsed, blocked, polls, progress>>
    /\ UNCHANGED <<convVars, gooseVars>>

\* The end of the with block (line 1096): ThreadPoolExecutor.__exit__ calls
\* shutdown(wait=True), which returns when the worker has finished.
ExecutorWaits ==
    /\ orch_pc = "executor_exit"
    /\ ~FutureDone
    /\ blocked < MaxWaitTicks * PollInterval
    /\ blocked' = blocked + PollInterval
    /\ UNCHANGED <<orch_pc, gen_user, elapsed, timed_out, gen_result, polls, progress>>
    /\ UNCHANGED <<convVars, gooseVars>>

\* The with block left as by shutdown(wait=False).
ExecutorExitNoWait ==
    /\ orch_pc = "executor_exit"
    /\ orch_pc' = "report"
    /\ UNCHANGED <<gen_user, elapsed, blocked, timed_out, gen_result, polls, progress>>
    /\ UNCHANGED <<convVars, gooseVars>>

ExecutorExit ==
    /\ orch_pc = "executor_exit"
    /\ FutureDone
    /\ orch_pc' = "report"
    /\ UNCHANGED <<gen_user, elapsed, blocked, timed_out, gen_result, polls, progress>>
    /\ UNCHANGED <<convVars, gooseVars>>

\* The future read again when the result is processed.
ReportedOutcomeLate == IF result # << >> THEN result[1] ELSE gen_result[1]

\* success, generated_file as line 1134 reads them: the values assigned at
\* lines 1124 or 1128.
ReportedOutcome == gen_result[1]

\* Lines 1130-1249: the result is reported.  sent tells whether the
\* edit_message_text call of the branch taken succeeds; when it raises, or
\* future.result() raised, the except clause (1213) reports the error and
\* nothing is written (the success branch writes after its call, 1171).
ReportGeneration(sent) ==
    /\ orch_pc = "report"
    /\ orch_pc' = "returned"
    /\ LET out == ReportedOutcome
           project == user_projects[gen_user]
       IN  IF out.raised \/ ~sent
           THEN /\ UNCHANGED user_projects
                /\ turn' = Turn("generate_scraper", gen_user, "error", FALSE, << >>, NoReply)
           ELSE /\ user_projects' =
                      [user_projects EXCEPT
                          ![gen_user] = RecordGeneration(project, out.success, out.file)]
                /\ turn' = Turn("generate_scraper", gen_user,
                                IF out.success /\ out.file # << >>
                                THEN "generated" ELSE "failed",
                                FALSE, << >>, NoReply)
    /\ UNCHANGED <<gen_user, elapsed, blocked, timed_out, gen_result, polls, progress>>
    /\ UNCHANGED <<gooseVars, dispVars, mainVars>>

(***************************************************************************)
(* SpecGen: one generate_scraper callback                                  *)
(***************************************************************************)

\* The summary stored by a forced-summary turn whose LLM call failed, for
\* a project that holds U1 and its analysis.
SummaryOfU1 ==
    Dict({"stage", "response_message", "project_summary", "data_schema",
          "technical_requirements", "next_steps", "final_question"},
         "project_summary_and_schema", Text("PROJECT SUMMARY & SCHEMA"),
         << >>, << >>, Absent, {"price", "title"})

\* A project after three exchanges about U1, the forced summary and the
\* confirm_project callback (a state Spec reaches).
ConfirmedProject(u) ==
    [ user_id |-> u,
      target_urls |-> << U1 >>,
      data_requirements |->
          [ EmptyRequirements EXCEPT
              !.page_analyses = [@ EXCEPT ![U1] = Some(Ecommerce)],
              !.final_analysis = Some(SummaryOfU1),
              !.goose_prompt = "prompt_a" ],
      context_history |->
          << Entry("user", MsgUrl), Entry("assistant", R1),
             Entry("user", MsgUrl), Entry("assistant", R1),
             Entry("user", MsgUrl), Entry("assistant", R1),
             Entry("user", MsgUrl) >>,
      status |-> "confirmed_ready_for_generation" ]

InitGen ==
    /\ user_projects \in
          { [u \in Users |-> IF u = 1 THEN ConfirmedProject(1) ELSE NoProject],
            [u \in Users |-> IF u = 1 THEN ScrapingProject(1) ELSE NoProject] }
    /\ turn = Turn("none", 0, "none", FALSE, << >>, NoReply)
    /\ InitDisp
    /\ InitMain
    /\ InitGoose
    /\ InitOrch

NextGen ==
    \/ \E u \in TurnUsers, avail \in Availability : GenerateScraperBegin(u, avail)
    \/ SubmitWorker
    \/ PollSleep
    \/ PollEnd
    \/ GetResult
    \/ ExecutorWaits
    \/ ExecutorExit
    \/ \E sent \in BOOLEAN : ReportGeneration(sent)
    \/ GooseStep /\ UNCHANGED <<convVars, orchVars>>
    \/ GooseEnvironment /\ UNCHANGED <<convVars, orchVars>>

SpecGen == InitGen /\ [][NextGen]_vars

(***************************************************************************)
(* Spec: the conversation controller                                       *)
(***************************************************************************)

\* The values run_automation returns (lines 261-298).
AutomationResults ==
    { RunResult(TRUE, Some(Scraper)), RunResult(FALSE, Some(Scraper)),
      RunResult(FALSE, Some(Readme)), RunResult(FALSE, << >>) }

\* handle_callback with generate_scraper, from the callback to the report:
\* done tells whether the worker was done at line 1123, res is what it
\* returns, sent whether the report's edit_message_text call succeeds.
GenerateScraper(u, avail, done, res, sent) ==
    LET project == ProjectOrNew(u)
        out == FutureOutcome(done, res)
        started == project.data_requirements.goose_prompt # None /\ avail = "ok"
    IN  /\ user_projects' =
              [user_projects EXCEPT
                  ![u] = IF started /\ sent
                         THEN RecordGeneration(project, out.success, out.file)
                         ELSE project]
        /\ turn' = Turn("generate_scraper", u,
                        IF ~started THEN "not_started"
                        ELSE IF ~sent THEN "error"
                        ELSE IF out.success /\ out.file # << >> THEN "generated"
                        ELSE "failed",
                        FALSE, << >>, NoReply)

\* No generation runs in Spec and SpecUrls: the automator's state stays
\* as constructed, in a directory that holds goose.py alone.
InitIdle == InitGoose /\ fs = Directory(<< GooseScript >>, 0)

Init == InitConv /\ InitDisp /\ InitMain /\ InitIdle /\ InitOrch

Next ==
    \/ \E u \in TurnUsers, user_message \in Messages, llm \in LLMOutcomes :
          HandleMessage(u, user_message, llm) /\ UNCHANGED <<gooseVars, orchVars, dispVars, mainVars>>
    \/ \E u \in TurnUsers : StartCommand(u) /\ UNCHANGED <<gooseVars, orchVars, dispVars, mainVars>>
    \/ \E u \in TurnUsers : ResetCommand(u) /\ UNCHANGED <<gooseVars, orchVars, dispVars, mainVars>>
    \/ \E u \in TurnUsers : ResetProjectInline(u) /\ UNCHANGED <<gooseVars, orchVars, dispVars, mainVars>>
    \/ \E u \in TurnUsers : ViewCallback(u) /\ UNCHANGED <<gooseVars, orchVars, dispVars, mainVars>>
    \/ \E u \in TurnUsers, goose_prompt \in GoosePrompts :
          ConfirmProject(u, goose_prompt) /\ UNCHANGED <<gooseVars, orchVars, dispVars, mainVars>>
    \/ \E u \in TurnUsers, avail \in Availability, done \in BOOLEAN,
          res \in AutomationResults, sent \in BOOLEAN :
          \* res is read only when the worker is done; there is a worker
          \* and a report only when the checks passed
          /\ done \/ res = RunResult(FALSE, << >>)
          /\ avail = "ok" \/ (~done /\ sent)
          /\ GenerateScraper(u, avail, done, res, sent)
          /\ UNCHANGED <<gooseVars, orchVars, dispVars, mainVars>>

Spec == Init /\ [][Next]_vars

(***************************************************************************)
(* SpecUrls: the conversation controller collecting URLs                   *)
(***************************************************************************)

NextUrls ==
    \/ \E u \in TurnUsers, user_message \in UrlMessages, llm \in UrlLLMOutcomes :
          HandleMessage(u, user_message, llm) /\ UNCHANGED <<gooseVars, orchVars, dispVars, mainVars>>
    \/ \E u \in TurnUsers : ResetCommand(u) /\ UNCHANGED <<gooseVars, orchVars, dispVars, mainVars>>

SpecUrls == Init /\ [][NextUrls]_vars

(***************************************************************************)
(* SpecLimit: turns that bring more URLs than one turn analyzes            *)
(***************************************************************************)

NextLimit ==
    \/ \E u \in TurnUsers, llm \in LimitLLMOutcomes :
          HandleMessage(u, MsgPlain, llm) /\ UNCHANGED <<gooseVars, orchVars, dispVars, mainVars>>
    \/ \E u \in TurnUsers : ResetCommand(u) /\ UNCHANGED <<gooseVars, orchVars, dispVars, mainVars>>

SpecLimit == Init /\ [][NextLimit]_vars

(***************************************************************************)
(* SpecTwo: two users whose updates arrive in any order                    *)
(***************************************************************************)

NextTwo ==
    \/ \E u \in Users, llm \in TwoLLMOutcomes :
          HandleMessage(u, MsgUrl, llm) /\ UNCHANGED <<gooseVars, orchVars, dispVars, mainVars>>
    \/ \E u \in Users : ResetCommand(u) /\ UNCHANGED <<gooseVars, orchVars, dispVars, mainVars>>
    \/ \E u \in Users : ViewCallback(u) /\ UNCHANGED <<gooseVars, orchVars, dispVars, mainVars>>
    \/ \E u \in Users :
          ConfirmProject(u, "prompt_a") /\ UNCHANGED <<gooseVars, orchVars, dispVars, mainVars>>
    \/ \E u \in Users :
          /\ GenerateScraper(u, "ok", TRUE, RunResult(TRUE, Some(Scraper)), TRUE)
          /\ UNCHANGED <<gooseVars, orchVars, dispVars, mainVars>>

SpecTwo == Init /\ [][NextTwo]_vars

(***************************************************************************)
(* SpecTurns: the messages of one user, from arrival to reply              *)
(***************************************************************************)

NextTurns ==
    \/ UpdateArrives /\ UNCHANGED <<gooseVars, orchVars, mainVars>>
    \/ \E u \in TurnUsers, llm \in TurnsLLMOutcomes :
          BeginHandleMessage(u, MsgUrl, llm) /\ UNCHANGED <<gooseVars, orchVars, mainVars>>
    \/ \E i \in Updates : ContinueHandleMessage(i) /\ UNCHANGED <<gooseVars, orchVars, mainVars>>
    \/ \E i \in Updates, sent \in BOOLEAN :
          EndHandleMessage(i, sent) /\ UNCHANGED <<gooseVars, orchVars, mainVars>>

SpecTurns == Init /\ [][NextTurns]_vars

(***************************************************************************)
(* SpecReply: the reply texts of a conversation without URLs               *)
(***************************************************************************)

NextReply ==
    \/ \E u \in TurnUsers, llm \in ReplyLLMOutcomes :
          HandleMessage(u, MsgPlain, llm) /\ UNCHANGED <<gooseVars, orchVars, dispVars, mainVars>>
    \/ \E u \in TurnUsers : ResetCommand(u) /\ UNCHANGED <<gooseVars, orchVars, dispVars, mainVars>>

SpecReply == Init /\ [][NextReply]_vars

(***************************************************************************)
(* SpecSessions: generate_scraper callbacks of two users, each with its    *)
(* own worker, as the Application hands them to handle_callback            *)
(***************************************************************************)

\* The head of the queue is taken and handle_callback runs
\* _handle_generate_scraper up to the checks (lines 616-627, 1025-1079):
\* without a prompt or a usable goose the handler returns.
BeginGenerateScraper(u, avail) ==
    /\ update_queue # << >>
    /\ FetcherIdle
    /\ LET i == Head(update_queue)
           started == ProjectOrNew(u).data_requirements.goose_prompt # None /\ avail = "ok"
       IN  /\ update_queue' = Tail(update_queue)
           /\ user_projects' = [user_projects EXCEPT ![u] = ProjectOrNew(u)]
           /\ handlers' =
                 [handlers EXCEPT
                     ![i] = [IdleHandler EXCEPT
                               !.pc = IF started THEN "submit" ELSE "ended", !.user = u]]
           /\ turn' = Turn("generate_scraper", u,
                           IF started THEN "started" ELSE "not_started",
                           FALSE, << >>, NoReply)
    /\ UNCHANGED <<sessions, log>>

\* Lines 1096-1104: the handler submits its worker to its executor.
SubmitSessionWorker(i) ==
    /\ handlers[i].pc = "submit"
    /\ handlers' = [handlers EXCEPT ![i].pc = "poll"]
    /\ sessions' = [sessions EXCEPT ![i].state = "running"]
    /\ UNCHANGED <<user_projects, turn, update_queue, log>>

\* The worker thread: run_goose_automation returns (goose.py 303-337).
SessionWorkerReturns(i, res) ==
    /\ sessions[i].state = "running"
    /\ sessions' = [sessions EXCEPT ![i].state = "returned", ![i].result = Some(res)]
    /\ UNCHANGED <<user_projects, turn, update_queue, handlers, log>>

\* Lines 1110-1128: the loop ends, with the worker seen done, or at the
\* ceiling with the worker still running (ceiling); success and
\* generated_file are assigned.
SessionPollEnds(i, ceiling) ==
    LET done == sessions[i].state = "returned"
    IN  /\ handlers[i].pc = "poll"
        /\ ceiling \/ done
        /\ handlers' = [handlers EXCEPT ![i].pc = "executor_exit"]
        /\ sessions' =
              [sessions EXCEPT
                  ![i].outcome =
                      Some(FutureOutcome(done, IF done THEN sessions[i].result[1]
                                               ELSE Propagated)),
                  ![i].timed_out = ~done]
        /\ UNCHANGED <<user_projects, turn, update_queue, log>>

\* An executor left without waiting for its worker.
SessionExecutorExitNoWait(i) ==
    /\ handlers[i].pc = "executor_exit"
    /\ handlers' = [handlers EXCEPT ![i].pc = "report"]
    /\ UNCHANGED <<user_projects, turn, update_queue, sessions, log>>

\* The end of the with block (line 1096): shutdown(wait=True) returns when
\* the worker has returned.
SessionExecutorExit(i) ==
    /\ handlers[i].pc = "executor_exit"
    /\ sessions[i].state = "returned"
    /\ handlers' = [handlers EXCEPT ![i].pc = "report"]
    /\ UNCHANGED <<user_projects, turn, update_queue, sessions, log>>

\* Lines 1130-1249: the result is reported and, on success, recorded; the
\* handler returns.
SessionReport(i, sent) ==
    LET u == handlers[i].user
        out == sessions[i].outcome[1]
    IN  /\ handlers[i].pc = "report"
        /\ handlers' = [handlers EXCEPT ![i].pc = "ended"]
        /\ user_projects' =
              [user_projects EXCEPT
                  ![u] = IF sent THEN RecordGeneration(@, out.success, out.file) ELSE @]
        /\ turn' = Turn("generate_scraper", u,
                        IF ~sent THEN "error"
                        ELSE IF out.success /\ out.file # << >> THEN "generated"
                        ELSE "failed",
                        FALSE, << >>, NoReply)
        /\ UNCHANGED <<update_queue, sessions, log>>

\* Both users have confirmed their project, or user 1 alone has.
InitSessions ==
    /\ user_projects \in
          { [u \in Users |-> ConfirmedProject(u)],
            [u \in Users |-> IF u = 1 THEN ConfirmedProject(1) ELSE NoProject] }
    /\ turn = Turn("none", 0, "none", FALSE, << >>, NoReply)
    /\ InitDisp
    /\ InitMain
    /\ InitIdle
    /\ InitOrch

NextSessions ==
    \/ UpdateArrives /\ UNCHANGED <<gooseVars, orchVars, mainVars>>
    \/ \E u \in Users, avail \in Availability :
          BeginGenerateScraper(u, avail) /\ UNCHANGED <<gooseVars, orchVars, mainVars>>
    \/ \E i \in Updates : SubmitSessionWorker(i) /\ UNCHANGED <<gooseVars, orchVars, mainVars>>
    \/ \E i \in Updates, res \in AutomationResults :
          SessionWorkerReturns(i, res) /\ UNCHANGED <<gooseVars, orchVars, mainVars>>
    \/ \E i \in Updates, ceiling \in BOOLEAN :
          SessionPollEnds(i, ceiling) /\ UNCHANGED <<gooseVars, orchVars, mainVars>>
    \/ \E i \in Updates : SessionExecutorExit(i) /\ UNCHANGED <<gooseVars, orchVars, mainVars>>
    \/ \E i \in Updates, sent \in BOOLEAN :
          SessionReport(i, sent) /\ UNCHANGED <<gooseVars, orchVars, mainVars>>

SpecSessions == InitSessions /\ [][NextSessions]_vars

(***************************************************************************)
(* SpecMain: the messages the main agent receives                          *)
(***************************************************************************)

NextMain ==
    \E u \in TurnUsers, user_message \in MainMessages, llm_ok \in BOOLEAN :
        /\ MainHandleMessage(u, user_message, llm_ok)
        /\ UNCHANGED <<user_projects, turn, dispVars, gooseVars, orchVars>>

SpecMain == Init /\ [][NextMain]_vars

(***************************************************************************)
(* Properties                                                              *)
(***************************************************************************)

HasProject(u) == user_projects[u] # NoProject

\* The handler that ran last replaced the project (/start, /reset or the
\* reset_project button).
IsReset(t) == t.op \in {"start", "reset", "reset_project"}

\* C1: over any sequence of messages and confirm_project / generate_scraper
\* callbacks of one user, with no reset or /start in between, the status
\* never moves backward in the stage order.  (Stated for steps between two
\* Stage values; Spec.)
C1_StatusNeverMovesBackward ==
    [][\A u \in Users :
          (/\ HasProject(u)
           /\ ~IsReset(turn')
           /\ user_projects[u].status \in Stages
           /\ user_projects'[u].status \in Stages)
          => Rank(user_projects'[u].status) >= Rank(user_projects[u].status)]_vars

\* C2: a message that arrives with the forcing rule true is always handled
\* as the summary stage: final_analysis is stored and the status is
\* awaiting_final_confirmation, whatever the summary LLM call produced.
\* (Spec.)
C2_ForcedTurnIsSummary ==
    (turn.op = "message" /\ turn.forced)
    => /\ turn.outcome = "summary"
       /\ user_projects[turn.user].data_requirements.final_analysis # << >>
       /\ user_projects[turn.user].status = "awaiting_final_confirmation"

\* C3: once run_automation has returned (cleanup has returned), the goose
\* process is not alive.  (SpecGoose.)
C3_ProcessNotAliveAfterCleanup == pc = "returned" => process # "alive"

\* C4: the handler of generate_scraper does not hold its caller beyond the
\* ceiling plus one poll interval: when the loop ended with the worker
\* still running, the handler has returned without having waited for the
\* worker.  (SpecGen.)
C4_ReturnsAtCeiling ==
    (orch_pc = "returned" /\ timed_out)
    => /\ elapsed + blocked <= timeout_seconds + PollInterval
       /\ blocked = 0

\* C5: target_urls holds every URL at most once.  (SpecUrls.)
C5_TargetUrlsUnique ==
    \A u \in Users :
        HasProject(u) =>
            \A i, j \in 1..Len(user_projects[u].target_urls) :
                user_projects[u].target_urls[i] = user_projects[u].target_urls[j] => i = j

\* C6: the status of every project is one of the eight Stage values.
\* (Spec.)
C6_StatusIsStage == \A u \in Users : HasProject(u) => user_projects[u].status \in Stages

\* C7: analyze_scraping_requirements never raises to handle_message.
\* (SpecUrls.)
C7_AnalyzerNeverRaises == turn.op = "message" => turn.outcome # "analyzer_raised"

\* The positions of the cleanup call among the calls made.
CleanupCalls == {i \in 1..Len(steps) : steps[i] = "cleanup"}

\* What cleanup itself does.
CleanupSteps == {"write_exit", "terminate", "kill"}

\* C8: when run_automation has returned, cleanup was called exactly once
\* and nothing but cleanup's own steps came after the call, on every exit
\* path.  (SpecGoose.)
C8_CleanupOnceAndLast ==
    pc = "returned" =>
        /\ Cardinality(CleanupCalls) = 1
        /\ \A i \in CleanupCalls : \A j \in (i + 1)..Len(steps) : steps[j] \in CleanupSteps
        /\ ~monitoring

\* C8's case: run_automation has returned through the except clause after
\* the session was up, and cleanup went as far as kill().
C8_Witness ==
    /\ pc = "returned"
    /\ exit_path = "interrupted"
    /\ Len(steps) >= 3
    /\ steps[Len(steps)] = "kill"

\* The exit paths on which nothing was generated.
FailurePaths == {"start_failed", "send_failed", "not_found", "newline_failed"}

\* C9: when the session cannot be started, the prompt cannot be written,
\* or no fresh file is found after both searches (the newline's write may
\* fail), run_automation returns (False, None) and does not raise.
\* (SpecGoose.)
C9_FailureReturnsFalseNone ==
    (pc = "returned" /\ exit_path \in FailurePaths)
    => result = Some(RunResult(FALSE, << >>))

\* C9's case: the newline written before the second search failed.
C9_Witness ==
    /\ pc = "returned"
    /\ exit_path = "newline_failed"
    /\ result = Some(RunResult(FALSE, << >>))

\* C10: when a file was found and running it failed, and the handler saw
\* the worker's result, the project is at scraper_generated and the path
\* of the file is recorded.  (SpecGen.)
C10_ExecFailureStillGenerated ==
    (/\ orch_pc = "returned"
     /\ gen_result # << >>
     /\ ~timed_out
     /\ exit_path = "exec_failed")
    => /\ user_projects[gen_user].status = "scraper_generated"
       /\ user_projects[gen_user].data_requirements.generated_file # << >>

\* C11: once goose_prompt is stored, no later operation on the project
\* other than a reset changes its value.  (Spec.)
C11_GoosePromptNeverRegenerated ==
    [][\A u \in Users :
          (/\ HasProject(u)
           /\ user_projects[u].data_requirements.goose_prompt # None
           /\ ~IsReset(turn'))
          => user_projects'[u].data_requirements.goose_prompt
                 = user_projects[u].data_requirements.goose_prompt]_vars

\* C12: whenever the handler of generate_scraper has returned, the worker
\* it started (if any) has returned from run_automation, and that run went
\* through cleanup.  (SpecGen.)
C12_NoWorkerLeftRunning ==
    orch_pc = "returned" =>
        /\ pc \in {"idle", "returned"}
        /\ pc = "returned" => Cardinality(CleanupCalls) = 1

\* C12's case: the loop ended at the ceiling with the worker running, and
\* the handler has returned.
C12_Witness ==
    /\ orch_pc = "returned"
    /\ timed_out
    /\ elapsed = timeout_seconds
    /\ pc = "returned"
    /\ Cardinality(CleanupCalls) = 1

\* C13: when the worker was not done at the end of the polling loop, the
\* handler reports a failure and the project's status and generated_file
\* are what they were before the callback, whatever the worker returns
\* afterwards.  (SpecGen; the callback arrives for ConfirmedProject.)
C13_TimeoutLeavesProject ==
    (orch_pc = "returned" /\ timed_out)
    => /\ turn.op = "generate_scraper"
       /\ turn.outcome \in {"failed", "error"}
       /\ user_projects[gen_user].status = ConfirmedProject(gen_user).status
       /\ user_projects[gen_user].data_requirements.generated_file = << >>

\* C13's case: the loop ended with the worker running, the worker then
\* returned (True, file), and the handler has returned.
C13_Witness ==
    /\ orch_pc = "returned"
    /\ timed_out
    /\ result # << >>
    /\ result[1].success
    /\ result[1].file # << >>

\* C14: after a generation attempt that was reported as failed (start or
\* send failure, file not found, timeout) or that ended in the handler's
\* except clause, the project is what it was before the callback:
\* goose_prompt, final_analysis, target_urls, context_history and status
\* included.  (SpecGen; the callback arrives for ConfirmedProject.)
C14_FailureLeavesProject ==
    (/\ orch_pc = "returned"
     /\ turn.op = "generate_scraper"
     /\ turn.outcome \in {"failed", "error"})
    => user_projects[gen_user] = ConfirmedProject(gen_user)

\* C14's case: no file was found after both searches and the handler has
\* reported the failure.
C14_Witness ==
    /\ orch_pc = "returned"
    /\ turn.outcome = "failed"
    /\ ~timed_out
    /\ exit_path = "not_found"
    /\ user_projects[gen_user].data_requirements.goose_prompt = "prompt_a"

\* C15: the page analyzer is invoked at most once for each distinct URL of
\* a project; in particular the URLs analyzed in one turn are distinct.
\* (SpecUrls.)
C15_AnalyzedAtMostOnce ==
    turn.op = "message" =>
        \A i, j \in 1..Len(turn.analyzed) :
            turn.analyzed[i].url = turn.analyzed[j].url => i = j

\* The URLs for which some call of the turn ended with the given kinds.
UrlsEnding(kinds) ==
    {turn.analyzed[i].url : i \in {k \in 1..Len(turn.analyzed) : turn.analyzed[k].kind \in kinds}}

\* C16: after a turn in which the page analyzer failed for a URL (success
\* false, or an exception), nothing is stored for a URL none of whose
\* calls succeeded, the analysis of every URL whose call succeeded is
\* stored, and the turn has completed: the status is the stage of the
\* turn, the assistant entry is the last of the history and a reply was
\* sent.  (SpecUrls.)
C16_AnalyzerFailureIsLocal ==
    (turn.op = "message" /\ turn.outcome = "normal" /\ UrlsEnding({"fail", "raise"}) # {})
    => LET project == user_projects[turn.user]
       IN  /\ \A url \in UrlsEnding({"fail", "raise"}) \ UrlsEnding({"ok"}) :
                 project.data_requirements.page_analyses[url] = << >>
           /\ \A url \in UrlsEnding({"ok"}) :
                 project.data_requirements.page_analyses[url] # << >>
           /\ project.status \in {"conversation_deepening", "requirements_clarification"}
           /\ project.context_history[Len(project.context_history)].role = "assistant"
           /\ turn.reply # NoReply

\* C16's case: the first call of the turn raised and the second succeeded.
C16_Witness ==
    /\ turn.op = "message"
    /\ turn.outcome = "normal"
    /\ Len(turn.analyzed) = 2
    /\ turn.analyzed[1].kind = "raise"
    /\ turn.analyzed[2].kind = "ok"
    /\ turn.analyzed[1].url # turn.analyzed[2].url
    /\ user_projects[turn.user].data_requirements.page_analyses[turn.analyzed[2].url] # << >>

\* The fields of the scraper agent's analysis that C17 names.
ScraperFields ==
    {"stage", "response_message", "probing_questions", "detected_urls",
     "understanding_level", "insights_gathered"}

\* C17: the dict the analyzer returns to handle_message holds every one of
\* stage, response_message, probing_questions, detected_urls,
\* understanding_level and insights_gathered with a value that is not
\* None, whatever fields the LLM's object lacked.  (SpecUrls.)
C17_MissingFieldsBackFilled ==
    (turn.op = "message" /\ turn.outcome # "analyzer_raised")
    => ScraperFields \subseteq Fields(turn.analysis)

\* The message of the turn handled last: the last user entry of the
\* history.
LastUserMessage(project) ==
    LET h == project.context_history
        last == CHOOSE i \in 1..Len(h) :
                    h[i].role = "user" /\ \A j \in (i + 1)..Len(h) : h[j].role # "user"
    IN  h[last].content

\* The URLs a message names, in order.
UrlsNamed(user_message) == SelectSeq(user_message, LAMBDA token : token \in {U1, U2})

\* C18: when the analyzer's LLM call fails (forcing rule false), the result
\* has stage conversation_deepening; its detected_urls are the URLs of the
\* message in order; understanding_level is getting_deeper when there is
\* at least one, else surface.  (SpecUrls.)
C18_FallbackAnalysis ==
    (turn.op = "message" /\ ~turn.llm_ok /\ ~turn.forced /\ turn.outcome = "normal")
    => LET named == UrlsNamed(LastUserMessage(user_projects[turn.user]))
       IN  /\ turn.analysis.stage = "conversation_deepening"
           /\ turn.analysis.detected_urls = named
           /\ turn.analysis.understanding_level =
                  IF named # << >> THEN "getting_deeper" ELSE "surface"

\* C18's case: the LLM call failed for a message that names a URL twice.
C18_Witness ==
    /\ turn.op = "message"
    /\ ~turn.llm_ok
    /\ ~turn.forced
    /\ turn.outcome = "normal"
    /\ LastUserMessage(user_projects[turn.user]) = MsgTwice
    /\ turn.analysis.detected_urls = << U1, U1 >>

\* The stage and understanding_level of a result, or that the call raised.
Verdict(res) ==
    IF res.raised
    THEN << "raised" >>
    ELSE << GetStage(res.analysis), res.analysis.understanding_level >>

\* handle_message's project as the analyzer receives it.
WithUserEntry(project, user_message) ==
    [project EXCEPT !.context_history = Append(@, Entry("user", user_message))]

FreshCandidates(dir, patterns) ==
    {i \in 1..Len(dir.order) :
        /\ dir.order[i].suffix \in patterns
        /\ dir.order[i] # GooseScript
        /\ IsFresh(dir, i)}

\* A step that is a call of find_generated_file.
IsFindStep ==
    /\ pc \in {"find", "find_again"}
    /\ steps' = Append(steps, "find")

\* C20: find_generated_file records the most recently modified of the
\* fresh candidates as generated_file and returns True; when there is
\* none it returns False and generated_file is unchanged.  (SpecGoose.)
C20_FindGeneratedFile ==
    [][IsFindStep =>
          LET fresh == FreshCandidates(fs, file_patterns)
          IN  IF fresh # {}
              THEN /\ generated_file' = Some(fs.order[Max(fresh)])
                   /\ pc' = "execute"
              ELSE /\ generated_file' = generated_file
                   /\ pc' # "execute"]_vars

\* C20's case: the search has selected a file written during the run while
\* an older file that matches the patterns lies in the directory and
\* goose.py is there too.
C20_Witness ==
    /\ pc = "execute"
    /\ generated_file = Some(Readme)
    /\ \E i \in 1..Len(fs.order) : fs.order[i] = Scraper /\ ~IsFresh(fs, i)
    /\ \E i \in 1..Len(fs.order) : fs.order[i] = GooseScript


\* handle_message went past line 404 for user u in the step: the turn was not
\* a summary turn and the analyzer returned.
IsUrlStep(u) ==
    /\ turn'.op = "message"
    /\ turn'.user = u
    /\ turn'.outcome \in {"normal", "key_error"}

\* C21: in one turn the page analyzer is invoked for at most the first 3
\* newly added URLs, in their order; every new URL is appended to target_urls
\* in that turn, and a new URL beyond the third (one that is none of the
\* first three) has no page_analyses entry after the turn.  (SpecLimit.)
C21_AnalyzesFirstThree ==
    [][\A u \in Users :
          IsUrlStep(u) =>
            LET old == ProjectOrNew(u)
                new_urls == NewUrls(turn'.analysis.detected_urls, old.target_urls)
                first == {new_urls[j] : j \in 1..Min(3, Len(new_urls))}
            IN  /\ Len(turn'.analyzed) = Min(3, Len(new_urls))
                /\ \A i \in 1..Len(turn'.analyzed) : turn'.analyzed[i].url = new_urls[i]
                /\ user_projects'[u].target_urls = old.target_urls \o new_urls
                /\ \A i \in 4..Len(new_urls) :
                      new_urls[i] \notin first =>
                        user_projects'[u].data_requirements.page_analyses[new_urls[i]] = << >>
      ]_vars

\* A turn brought four new URLs: three analyzer calls, the first URL's
\* analysis stored, the fourth URL recorded without one.
C21_Witness ==
    /\ turn.op = "message"
    /\ turn.outcome = "normal"
    /\ turn.analysis.detected_urls = << U1, U2, U3, U4 >>
    /\ user_projects[1].target_urls = << U1, U2, U3, U4 >>
    /\ Len(turn.analyzed) = 3
    /\ user_projects[1].data_requirements.page_analyses[U1] # << >>
    /\ user_projects[1].data_requirements.page_analyses[U4] = << >>

\* C22: after /reset, /start or the reset_project callback of a user, the
\* project stored for that user is a fresh one: status link_collection,
\* target_urls, context_history and data_requirements empty, whatever the
\* project was before.  (Spec.)
C22_ResetGivesFreshProject ==
    IsReset(turn) =>
        LET project == user_projects[turn.user]
        IN  /\ project.status = "link_collection"
            /\ project.target_urls = << >>
            /\ project.context_history = << >>
            /\ project.data_requirements = EmptyRequirements

\* The reset_project button was the last update handled.
C22_Witness ==
    /\ turn.op = "reset_project"
    /\ user_projects[turn.user] = ScrapingProject(turn.user)

\* data_requirements.final_analysis of user u's project: << >> when absent.
FinalAnalysis(projects, u) ==
    IF projects[u] = NoProject THEN << >>
    ELSE projects[u].data_requirements.final_analysis

\* The step completed a summary-stage turn of user u.
IsSummaryStep(u) ==
    /\ turn'.op = "message"
    /\ turn'.user = u
    /\ turn'.outcome = "summary"

C24_OtherUsersProjectUnchanged ==
    [][\A b \in Users :
          b # turn'.user => user_projects'[b] = user_projects[b]
      ]_vars

\* User 2's reset was handled while user 1 had a project with a URL, an
\* exchange and a confirmation behind it.
C24_Witness ==
    /\ turn.user = 2
    /\ turn.op = "reset"
    /\ user_projects[2] = ScrapingProject(2)
    /\ HasProject(1)
    /\ user_projects[1].target_urls = << U1 >>
    /\ Len(user_projects[1].context_history) >= 2
    /\ user_projects[1].status = "confirmed_ready_for_generation"

\* The positions of log that hold event ev of update i.
Positions(i, ev) == {k \in DOMAIN log : log[k] = Ev(i, ev)}

\* C25: for one user the turns are handled in arrival order and never
\* overlap: when the handling of a message appends its user entry or calls
\* the analyzer, the handling of every message that arrived before it is
\* over, with its assistant entry appended and its reply sent unless an
\* exception or a summary ended it, and does nothing afterwards.
\* (SpecTurns.)
C25_TurnsInArrivalOrder ==
    \A k \in DOMAIN log :
        log[k].ev \in {"user_entry", "analyzer"} =>
            \A i \in 1..(log[k].id - 1) :
                /\ \E e \in 1..(k - 1) : log[e].id = i /\ log[e].ev \in EndEvents
                /\ \A e \in 1..(k - 1) :
                      log[e] = Ev(i, "reply") =>
                          \E a \in 1..(e - 1) : log[a] = Ev(i, "assistant_entry")
                /\ \A e \in k..Len(log) : log[e].id # i

\* The second message arrived while the first was being handled, before
\* the first one's assistant entry; its user entry came after the first
\* one's reply.
C25_Witness ==
    \E a \in Positions(2, "arrived"), b \in Positions(1, "assistant_entry"),
       c \in Positions(1, "reply"), d \in Positions(2, "user_entry") :
        /\ Positions(1, "analyzer") # {}
        /\ \A x \in Positions(1, "analyzer") : x < a
        /\ a < b
        /\ b < c
        /\ c < d

\* The question is added to the reply of the turn that ran last.
AsksQuestion ==
    /\ turn.analysis.probing_questions # << >>
    /\ Len(user_projects[turn.user].context_history) < 6

\* C26: the reply of a normal turn is response_message followed by the
\* first probing question (after a blank line, without the white space
\* around it; nothing is added for an empty question) exactly when
\* probing_questions is not empty and context_history, the assistant entry
\* included, is shorter than 6; otherwise it is response_message alone.
\* (SpecReply.)
C26_ReplyText ==
    (turn.op = "message" /\ turn.outcome = "normal") =>
        LET response_message == turn.analysis.response_message
            first == turn.analysis.probing_questions[1]
        IN  IF AsksQuestion /\ first # << >>
            THEN turn.reply = response_message \o << BlankLine >> \o Strip(first)
            ELSE turn.reply = response_message

\* The second exchange got the first of two questions, stripped.
C26_Witness ==
    /\ turn.op = "message"
    /\ turn.outcome = "normal"
    /\ Len(user_projects[turn.user].context_history) = 4
    /\ turn.analysis.probing_questions = << Q2, Q1 >>
    /\ turn.reply = R1 \o << BlankLine >> \o Text("q2")

\* execute_file_background was called and its value is what run_automation
\* returned.
Executed == execution.called /\ exit_path \in {"success", "exec_failed"}

\* The suffix of the artifact, in lower case.
ArtifactSuffix == Lower(generated_file[1].suffix)

C28_FallbackSummaryStored ==
    (turn.op = "message" /\ turn.forced /\ ~turn.llm_ok /\ turn.outcome # "summary_aborted")
    => /\ turn.outcome = "summary"
       /\ GetStage(turn.analysis) = "project_summary_and_schema"
       /\ turn.analysis.primary_data \subseteq AllPrimaryFields(user_projects[turn.user])
       /\ Cardinality(turn.analysis.primary_data) <= 10
       /\ FinalAnalysis(user_projects, turn.user) = << turn.analysis >>

\* The calls run_automation makes, in the order of its text.
WorkflowOrder == << "start", "send", "find", "execute", "cleanup" >>

WorkflowRank(step) == CHOOSE r \in 1..Len(WorkflowOrder) : WorkflowOrder[r] = step

\* The calls made so far, without the newline and cleanup's own steps.
WorkflowCalls == SelectSeq(steps, LAMBDA step : step \in Range(WorkflowOrder))

\* The positions of the calls of one step.
CallsOf(step) == {i \in DOMAIN steps : steps[i] = step}

\* C29: within one run_automation call the steps happen in the order start,
\* send, search, execute, cleanup; the prompt is sent only after
\* start_goose_session returned True, the search runs only after send_prompt
\* returned True, execute_file_background only after a search returned True;
\* no step is repeated, except that the search is made a second time after
\* the newline.  (SpecGoose.)
C29_WorkflowOrder ==
    /\ \A i, j \in DOMAIN WorkflowCalls :
          i < j =>
            \/ WorkflowRank(WorkflowCalls[i]) < WorkflowRank(WorkflowCalls[j])
            \/ WorkflowCalls[i] = "find" /\ WorkflowCalls[j] = "find"
    /\ Cardinality(CallsOf("find")) <= 2
    /\ \A i, j \in CallsOf("find") : i < j => j = i + 2 /\ steps[i + 1] = "newline"
    /\ CallsOf("send") # {} => CallsOf("start") # {} /\ exit_path # "start_failed"
    /\ CallsOf("find") # {} =>
          CallsOf("send") # {} /\ exit_path \notin {"start_failed", "send_failed"}
    /\ CallsOf("execute") # {} =>
          /\ CallsOf("find") # {}
          /\ generated_file # << >>
          /\ exit_path \notin FailurePaths

\* A run that needed the second search and went through all five steps.
C29_Witness ==
    /\ pc = "returned"
    /\ Len(steps) >= 7
    /\ SubSeq(steps, 1, 7)
         = << "start", "send", "find", "newline", "find", "execute", "cleanup" >>

\* C30: cleanup escalates in a fixed order and only while the process is
\* alive: the exit command is written only to a process that is alive and
\* before anything else, terminate() is called only right after the exit
\* command and kill() only right after terminate(), each only when the
\* process is still alive; for a process that has exited there is no write,
\* terminate or kill.  (SpecGoose.)
C30_CleanupEscalation ==
    [][LET added == IF Len(steps') = Len(steps) + 1 THEN steps'[Len(steps')] ELSE "none"
       IN  added \in CleanupSteps =>
             /\ process = "alive"
             /\ steps # << >>
             /\ added = "write_exit" => steps[Len(steps)] = "cleanup"
             /\ added = "terminate" => steps[Len(steps)] = "write_exit"
             /\ added = "kill" => steps[Len(steps)] = "terminate"
      ]_vars

\* A run that ended well and whose cleanup went through the exit command,
\* terminate() and kill().
C30_Witness ==
    /\ pc = "returned"
    /\ exit_path = "success"
    /\ Len(steps) >= 4
    /\ SubSeq(steps, Len(steps) - 3, Len(steps))
         = << "cleanup", "write_exit", "terminate", "kill" >>

\* C31: when run_automation returns, the reader thread started by
\* start_goose_session has left the loop of monitor_output, on every exit
\* path.  (SpecGoose.)
C31_ReaderStoppedAtReturn == pc = "returned" => reader # "running"

\* The updates whose worker is running.
ActiveSessions == {i \in Updates : sessions[i].state = "running"}

\* C32: at no time are two run_goose_automation workers running, over any
\* sequence of generate_scraper callbacks of any users, also when a
\* callback arrives after an earlier generation timed out.  (SpecSessions.)
C32_OneSessionAtATime == Cardinality(ActiveSessions) <= 1

\* The worker of a later callback is running after the generation of an
\* earlier callback, of another user, timed out.
C32_Witness ==
    \E i, j \in Updates :
        /\ i < j
        /\ sessions[i].timed_out
        /\ handlers[i].pc = "ended"
        /\ sessions[j].state = "running"
        /\ handlers[i].user # handlers[j].user

\* The sleeps of the loop so far: one after every read that saw the
\* worker not done.
Sleeps == Cardinality({k \in DOMAIN polls : ~polls[k].done})

\* C33: the polling loop reads the worker's future at elapsed = 0, 5, 10,
\* ... and is left at the first read that sees it done; there are at most
\* 24 sleeps and elapsed never exceeds 120; a progress update is made
\* exactly at the elapsed values that are multiples of 15, at most 8 of
\* them, none showing more than the budget.  (SpecGen.)
C33_PollingLoop ==
    /\ \A k \in DOMAIN polls : polls[k].at = 5 * (k - 1)
    /\ \A k \in DOMAIN polls : polls[k].done => (k = Len(polls) /\ orch_pc # "poll")
    /\ elapsed = 5 * Sleeps
    /\ Sleeps <= 24
    /\ elapsed <= 120
    /\ progress = [k \in 1..(elapsed \div 15) |-> 15 * k]
    /\ Len(progress) <= 8
    /\ \A k \in DOMAIN progress : progress[k] <= timeout_seconds

\* The loop ran to the ceiling: 24 sleeps, 8 progress updates, the last
\* one showing 120, and the handler went on to the timeout branch.
C33_Witness ==
    /\ orch_pc = "executor_exit"
    /\ timed_out
    /\ Sleeps = 24
    /\ Len(progress) = 8
    /\ progress[8] = 120

\* project.data_requirements.get("generated_file"), << >> when it is unset
GeneratedFile(projects, u) == projects[u].data_requirements.generated_file

Refusals == {"no_prompt", "no_module", "unavailable"}

\* C35: a generate_scraper callback for a project without a stored
\* goose_prompt starts no worker and no goose process and leaves the
\* project as it is; so does one that finds the goose module missing or
\* the goose executable unusable.  (SpecGen.)
C35_RefusedCallbackStartsNothing ==
    /\ [][\A u \in TurnUsers :
            (/\ orch_pc = "idle"
             /\ gen_user' = u
             /\ turn'.outcome \in Refusals)
            => /\ orch_pc' = "returned"
               /\ user_projects'[u] = ProjectOrNew(u)
               /\ UNCHANGED gooseVars]_vars
    /\ []((turn.op = "generate_scraper" /\ turn.outcome \in Refusals)
          => /\ pc = "idle"
             /\ process = "none"
             /\ reader = "none"
             /\ steps = << >>
             /\ fs \in InitDirs)

\* A project with a stored prompt whose callback found the goose executable
\* unusable: the handler has returned.
C35_Witness ==
    /\ orch_pc = "returned"
    /\ turn.op = "generate_scraper"
    /\ turn.outcome = "unavailable"
    /\ user_projects[gen_user] = ConfirmedProject(gen_user)
    /\ pc = "idle"

\* The messages a project has received since it was created: every
\* handle_message call appends one user entry (line 396).
UserEntries(project) ==
    Cardinality({i \in DOMAIN project.context_history :
                    project.context_history[i].role = "user"})

\* C36: in a project that is not reset, the forcing rule does not fire on
\* the first three messages, and from the fourth message on the summary
\* generator is called on every message that finds target_urls and
\* page_analyses both non-empty.  (SpecUrls.)
C36_ForcingFromFourthMessage ==
    [][\A u \in Users :
          (turn'.op = "message" /\ turn'.user = u) =>
            LET project == ProjectOrNew(u)
                k == UserEntries(project) + 1
            IN  /\ k <= 3 => ~turn'.forced
                /\ (/\ k >= 4
                    /\ project.target_urls # << >>
                    /\ HasPageAnalyses(project)) => turn'.forced]_vars

\* context_history of user u, empty when the user has no project
History(projects, u) ==
    IF projects[u] = NoProject THEN << >> ELSE projects[u].context_history

\* C37: outside a reset context_history only grows and its entries stay
\* as they are; a normal turn appends two entries, the user message and
\* then the assistant entry with the analysis's response_message; a
\* summary-stage turn appends one entry, the user message.  (SpecUrls.)
C37_HistoryAppendOnly ==
    [][\A u \in Users :
          LET old == History(user_projects, u)
              new == History(user_projects', u)
              added == SubSeq(new, Len(old) + 1, Len(new))
              mine == turn'.op = "message" /\ turn'.user = u
          IN  /\ ~(IsReset(turn') /\ turn'.user = u)
                    => /\ Len(new) >= Len(old)
                       /\ SubSeq(new, 1, Len(old)) = old
              /\ (mine /\ turn'.outcome = "normal")
                    => /\ Len(added) = 2
                       /\ added[1].role = "user"
                       /\ added[1].content \in Messages \cup UrlMessages
                       /\ added[2] = Entry("assistant", turn'.analysis.response_message)
              /\ (mine /\ turn'.outcome = "summary")
                    => /\ Len(added) = 1
                       /\ added[1].role = "user"
                       /\ added[1].content \in Messages \cup UrlMessages]_vars

\* A summary-stage turn has followed three normal turns: the history ends
\* with the assistant entry of the third and the user entry of the fourth.
C37_Witness ==
    /\ turn.op = "message"
    /\ turn.outcome = "summary"
    /\ LET h == user_projects[turn.user].context_history
       IN  /\ Len(h) = 7
           /\ h[6].role = "assistant"
           /\ h[7].role = "user"

C39_ConfirmedHasFinalAnalysis ==
    \A u \in Users :
        (HasProject(u) /\ user_projects[u].status = "confirmed_ready_for_generation")
        => FinalAnalysis(user_projects, u) # << >>

\* The categories of the keyword fallback in their priority, each with
\* the agent it recommends.
Categories ==
    << [agent |-> "web_scraper", words |-> ScrapeWords],
       [agent |-> "whisper", words |-> AudioWords],
       [agent |-> "ffmpeg", words |-> MediaWords],
       [agent |-> "gdrive", words |-> StorageWords],
       [agent |-> "pdf_processor", words |-> DocumentWords] >>

\* The categories that have a keyword in the message.
Matched(user_message) ==
    {i \in DOMAIN Categories : AnyWordIn(user_message, Categories[i].words)}

\* C40: the keyword fallback of the main agent takes the categories in
\* the priority web scraping, audio, media, storage, document, generic: a
\* message with keywords of several categories gets the first of them,
\* one agent is recommended for a matched category, and needs_more_info is
\* true, with two clarifying questions, exactly in the generic case.
\* (SpecMain.)
C40_KeywordFallbackPriority ==
    (main_turn.op = "message" /\ ~main_turn.llm_ok) =>
        LET matched == Matched(main_turn.message)
            analysis == main_turn.analysis
        IN  /\ matched # {} =>
                  /\ analysis.recommended_agents =
                        << Categories[CHOOSE i \in matched : \A j \in matched : i <= j].agent >>
                  /\ ~analysis.needs_more_info
                  /\ analysis.clarifying_questions = << >>
            /\ matched = {} =>
                  /\ analysis.needs_more_info
                  /\ Len(analysis.clarifying_questions) = 2
                  /\ Len(analysis.recommended_agents) = 3
            /\ analysis.needs_more_info <=> matched = {}

\* A message with a document keyword and then a scraping keyword, in
\* capitals, got the web scraper.
C40_Witness ==
    /\ main_turn.op = "message"
    /\ ~main_turn.llm_ok
    /\ main_turn.message = << "pdf", "Scrape" >>
    /\ Matched(main_turn.message) = {1, 5}
    /\ main_turn.analysis.recommended_agents = << "web_scraper" >>

====
